---- MODULE Spec2Model ----
(***************************************************************************)
(* A model of the stellar-market contracts: the escrow contract (the Job   *)
(* Ledger, contracts/escrow/src/lib.rs) and the dispute contract (the      *)
(* Dispute Registry, contracts/dispute/src/lib.rs), over one token.        *)
(*                                                                         *)
(* Every contract entry point is an operator that reads the current state  *)
(* and returns a record: res is "Ok" or the error the call returns (or     *)
(* "HostError" when the host traps: a token transfer that panics, a failed *)
(* cross-contract call), and the other fields are the state the call       *)
(* leaves. The host reverts a failed call, so a failing call returns the   *)
(* state unchanged, and the actions below commit only successful calls.    *)
(* Left out: storage TTL bumps, events, the pause switch and the admin     *)
(* plumbing, descriptions/reasons, and the Reputation contract.            *)
(***************************************************************************)
EXTENDS FiniteSets, Integers, Sequences, TLC

VARIABLES
    jobs,          \* escrow: DataKey::Job(id), id = 1..Len(jobs) (JobCount = Len(jobs))
    proposals,     \* escrow: DataKey::RevisionProposal(job_id)
    fee_bps,       \* escrow: instance storage "FEE"
    bal,           \* the token contract: balance of every address
    now,           \* env.ledger().timestamp()
    sequence,      \* env.ledger().sequence()
    paidIn,        \* history: tokens the escrow received for each job
    paidOut,       \* history: tokens the escrow sent out for each job
    revisions,     \* history: propose_revision calls committed for each job
    disputes,      \* dispute: DataKey::Dispute(id), id = 1..Len(disputes)
    votes,         \* dispute: DataKey::Votes(id)
    hasVoted,      \* dispute: the DataKey::HasVoted(id, voter) keys that exist
    voterRewarded, \* dispute: the DataKey::VoterRewarded(id, voter) keys that exist
    escrowedIn,    \* history: tokens the registry received for each dispute
    paidOutD,      \* history: tokens the registry sent out for each dispute
    rewardPaid,    \* history: tokens claim_voter_reward paid for each dispute
    callbacks,     \* history: committed resolve_dispute_callback calls per dispute
    claimed,       \* history: the (dispute, voter) pairs whose claim_voter_reward succeeded
    threshold,     \* dispute: DataKey::MaliciousThreshold
    last           \* the call that was committed last, with its return value

vars == << jobs, proposals, fee_bps, bal, now, sequence, paidIn, paidOut, revisions,
           disputes, votes, hasVoted, voterRewarded, escrowedIn, paidOutD,
           rewardPaid, callbacks, claimed, threshold, last >>

escrowVars == << jobs, proposals, fee_bps, paidIn, paidOut, revisions >>
disputeVars == << disputes, votes, hasVoted, voterRewarded, escrowedIn, paidOutD,
                  rewardPaid, callbacks, claimed, threshold >>

----------------------------------------------------------------------------
(* Bounds of the model.                                                    *)

MaxJobs == 2
MaxDisputes == 2
MaxTime == 2
MaxBatchLen == 2
MaxRevisions == 1
ExtraVotes == 0
MaxQuorum == 12

(* Program constants.                                                      *)
MAX_FEE_BPS == 1000
BPS_DENOMINATOR == 10000
MIN_VOTES_FLOOR == 3
MAX_APPEALS == 2
APPEAL_WINDOW == 100
DEFAULT_THRESHOLD == 80

----------------------------------------------------------------------------
(* Addresses.                                                              *)

ClientAddr == "client"
FreelancerAddr == "freelancer"
OutsiderAddr == "outsider"
TreasuryAddr == "treasury"
EscrowAddr == "escrow"
RegistryAddr == "registry"
\* A contract whose resolve_dispute_callback(job_id: u64, resolved_for_client: bool)
\* does nothing (the DummyEscrow of dispute/src/test.rs).
DummyEscrowAddr == "dummy_escrow"
Voters == << "v01", "v02", "v03", "v04", "v05", "v06", "v07", "v08", "v09",
             "v10", "v11", "v12", "v13", "v14", "v15", "v16", "v17", "v18",
             "v19", "v20", "v21", "v22", "v23", "v24" >>
VoterSet == { Voters[i] : i \in 1..Len(Voters) }
Parties == { ClientAddr, FreelancerAddr }
Callers == { ClientAddr, FreelancerAddr, OutsiderAddr }
Addresses == Callers \cup { TreasuryAddr, EscrowAddr, RegistryAddr } \cup VoterSet
EscrowInputs == { EscrowAddr, DummyEscrowAddr }

\* Ids of the jobs and disputes that can be created. The calls that follow the
\* creation and funding of a job (the raising of a dispute) are made on the first
\* job (dispute) only: the others stand for the rest of the contract's pooled
\* token balance.
JobIds == 1..MaxJobs
DisputeIds == 1..MaxDisputes
ActiveJobIds == { 1 }
ActiveDisputeIds == { 1 }

----------------------------------------------------------------------------
(* Arithmetic and the token.                                               *)

\* Rust's integer division truncates toward zero.
Div(a, b) == IF a >= 0 THEN a \div b ELSE -((-a) \div b)

\* token::Client::transfer: traps on a negative amount or a short balance.
Transfer(r, from, to, amount) ==
    IF ~r.ok THEN r
    ELSE IF amount < 0 \/ r.bal[from] < amount THEN [ok |-> FALSE, bal |-> r.bal]
    ELSE [ok |-> TRUE,
          bal |-> [r.bal EXCEPT ![from] = @ - amount, ![to] = @ + amount]]

Token(b) == [ok |-> TRUE, bal |-> b]

----------------------------------------------------------------------------
(* Escrow: records.                                                        *)

NoProposal == [exists |-> FALSE, proposer |-> "", new_milestones |-> << >>,
               new_total |-> 0, status |-> "None"]

RECURSIVE SumAmounts(_)
SumAmounts(ms) == IF ms = << >> THEN 0 ELSE Head(ms).amount + SumAmounts(Tail(ms))

\* .filter(|m| m.status == Approved).map(|m| m.amount).sum()
RECURSIVE approved_amount(_)
approved_amount(ms) ==
    IF ms = << >> THEN 0
    ELSE (IF Head(ms).status = "Approved" THEN Head(ms).amount ELSE 0)
         + approved_amount(Tail(ms))

all_approved(ms) == \A i \in 1..Len(ms) : ms[i].status = "Approved"

\* The state an escrow call leaves, and its result.
EscrowFail(e) == [res |-> e, ret |-> 0, jobs |-> jobs, proposals |-> proposals,
                  bal |-> bal, paidIn |-> paidIn, paidOut |-> paidOut]
EscrowOk(ret, js, ps, b, pin, pout) ==
    [res |-> "Ok", ret |-> ret, jobs |-> js, proposals |-> ps, bal |-> b,
     paidIn |-> pin, paidOut |-> pout]

JobExists(job_id) == job_id \in 1..Len(jobs)

----------------------------------------------------------------------------
(* Escrow: entry points.                                                   *)

\* milestones: a sequence of <<amount, deadline>>.
RECURSIVE NewMilestones(_)
NewMilestones(ms) ==
    IF ms = << >> THEN << >>
    ELSE << [amount |-> Head(ms)[1], status |-> "Pending", deadline |-> Head(ms)[2]] >>
         \o NewMilestones(Tail(ms))

create_job(client, freelancer, milestones, job_deadline, auto_refund_after) ==
    IF job_deadline <= now THEN EscrowFail("InvalidDeadline")
    ELSE IF \E i \in 1..Len(milestones) :
                milestones[i][2] <= now \/ milestones[i][2] > job_deadline
    THEN EscrowFail("InvalidDeadline")
    ELSE LET ms == NewMilestones(milestones)
             job == [client |-> client, freelancer |-> freelancer,
                     total_amount |-> SumAmounts(ms), status |-> "Created",
                     milestones |-> ms, job_deadline |-> job_deadline,
                     auto_refund_after |-> auto_refund_after]
         IN EscrowOk(Len(jobs) + 1, Append(jobs, job), Append(proposals, NoProposal),
                     bal, paidIn, paidOut)

\* A check that lets every job that is not over be funded.
fundable_until_terminal(job) == job.status \notin {"Completed", "Cancelled"}

\* The status in which fund_job goes on to take the funds.
fundable(job) == job.status = "Created"

fund_job(job_id, client) ==
    IF ~JobExists(job_id) THEN EscrowFail("JobNotFound")
    ELSE LET job == jobs[job_id] IN
    IF job.client # client THEN EscrowFail("Unauthorized")
    ELSE IF ~fundable(job) THEN EscrowFail("AlreadyFunded")
    ELSE LET t == Transfer(Token(bal), client, EscrowAddr, job.total_amount) IN
    IF ~t.ok THEN EscrowFail("HostError")
    ELSE EscrowOk(0, [jobs EXCEPT ![job_id].status = "Funded"], proposals, t.bal,
                  [paidIn EXCEPT ![job_id] = @ + job.total_amount], paidOut)

\* A callback that rejects only the jobs that were never funded.
callback_rejects_created_only(job) == job.status = "Created"

\* The statuses in which the callback returns InvalidStatus.
callback_rejects(job) == job.status \in {"Created", "Completed", "Cancelled"}

\* A mapping that cancels the job whoever wins.
settled_status_always_cancelled(resolution, status) ==
    IF resolution = "Escalate" THEN status ELSE "Cancelled"

\* The job status each resolution leaves (the same in both branches of remaining > 0).
settled_status(resolution, status) ==
    CASE resolution \in {"ClientWins", "RefundBoth"} -> "Cancelled"
      [] resolution = "FreelancerWins" -> "Completed"
      [] OTHER -> status

resolve_dispute_callback(job_id, resolution) ==
    IF ~JobExists(job_id) THEN EscrowFail("JobNotFound")
    ELSE LET job == jobs[job_id] IN
    IF callback_rejects(job)
    THEN EscrowFail("InvalidStatus")
    ELSE LET remaining == job.total_amount - approved_amount(job.milestones)
             half == Div(remaining, 2)
             t == IF remaining > 0 /\ resolution = "ClientWins"
                  THEN Transfer(Token(bal), EscrowAddr, job.client, remaining)
                  ELSE IF remaining > 0 /\ resolution = "FreelancerWins"
                  THEN Transfer(Token(bal), EscrowAddr, job.freelancer, remaining)
                  ELSE IF remaining > 0 /\ resolution = "RefundBoth" /\ half > 0
                  THEN Transfer(Transfer(Token(bal), EscrowAddr, job.client, half),
                                EscrowAddr, job.freelancer, remaining - half)
                  ELSE Token(bal)
             status == settled_status(resolution, job.status)
         IN
    IF ~t.ok THEN EscrowFail("HostError")
    ELSE EscrowOk(0, [jobs EXCEPT ![job_id].status = status], proposals, t.bal, paidIn,
                  [paidOut EXCEPT ![job_id] = @ + (bal[EscrowAddr] - t.bal[EscrowAddr])])

submit_milestone(job_id, milestone_id, freelancer) ==
    IF ~JobExists(job_id) THEN EscrowFail("JobNotFound")
    ELSE LET job == jobs[job_id] IN
    IF job.freelancer # freelancer THEN EscrowFail("Unauthorized")
    ELSE IF job.status \notin {"Funded", "InProgress"} THEN EscrowFail("InvalidStatus")
    ELSE IF milestone_id + 1 \notin 1..Len(job.milestones)
    THEN EscrowFail("MilestoneNotFound")
    ELSE LET milestone == job.milestones[milestone_id + 1] IN
    IF milestone.status \notin {"Pending", "InProgress"} THEN EscrowFail("InvalidStatus")
    ELSE IF now > milestone.deadline THEN EscrowFail("MilestoneDeadlineExceeded")
    ELSE EscrowOk(0,
                  [jobs EXCEPT ![job_id].milestones[milestone_id + 1].status = "Submitted",
                               ![job_id].status = "InProgress"],
                  proposals, bal, paidIn, paidOut)

\* initialize(admin, treasury, fee_bps), the first call on the deployed contract.
initialize(fee) ==
    IF fee > MAX_FEE_BPS THEN [res |-> "InvalidStatus"]
    ELSE [res |-> "Ok", fee_bps |-> fee]

\* set_fee_bps(new_fee), authorized by the stored admin.
set_fee_bps(new_fee) ==
    IF new_fee > MAX_FEE_BPS THEN [res |-> "InvalidStatus", fee_bps |-> fee_bps]
    ELSE [res |-> "Ok", fee_bps |-> new_fee]

\* A fee taken in tenths of a percent.
fee_of_per_mille(amount) == Div(amount * fee_bps, BPS_DENOMINATOR \div 10)

\* (amount * fee_bps as i128) / 10_000
fee_of(amount) == Div(amount * fee_bps, BPS_DENOMINATOR)

approve_milestone(job_id, milestone_id, client) ==
    IF ~JobExists(job_id) THEN EscrowFail("JobNotFound")
    ELSE LET job == jobs[job_id] IN
    IF job.client # client THEN EscrowFail("Unauthorized")
    ELSE IF milestone_id + 1 \notin 1..Len(job.milestones)
    THEN EscrowFail("MilestoneNotFound")
    ELSE LET milestone == job.milestones[milestone_id + 1] IN
    IF milestone.status # "Submitted" THEN EscrowFail("InvalidStatus")
    ELSE LET fee_amount == fee_of(milestone.amount)
             freelancer_amount == milestone.amount - fee_amount
             t1 == IF fee_amount > 0
                   THEN Transfer(Token(bal), EscrowAddr, TreasuryAddr, fee_amount)
                   ELSE Token(bal)
             t == Transfer(t1, EscrowAddr, job.freelancer, freelancer_amount)
             milestones == [job.milestones EXCEPT ![milestone_id + 1].status = "Approved"]
             status == IF all_approved(milestones) THEN "Completed" ELSE job.status
         IN
    IF ~t.ok THEN EscrowFail("HostError")
    ELSE EscrowOk(0,
                  [jobs EXCEPT ![job_id].milestones = milestones, ![job_id].status = status],
                  proposals, t.bal, paidIn,
                  [paidOut EXCEPT ![job_id] = @ + (bal[EscrowAddr] - t.bal[EscrowAddr])])

\* A validation loop that checks the range of each index and not its status.
batch_validate_range_only(milestones, indices) ==
    IF \E i \in 1..Len(indices) : indices[i] + 1 \notin 1..Len(milestones)
    THEN "MilestoneNotFound"
    ELSE "Ok"

\* The first check of the validation loop that fails, in the order of the indices.
RECURSIVE batch_validate(_, _)
batch_validate(milestones, indices) ==
    IF indices = << >> THEN "Ok"
    ELSE IF Head(indices) + 1 \notin 1..Len(milestones) THEN "MilestoneNotFound"
    ELSE IF milestones[Head(indices) + 1].status # "Submitted" THEN "InvalidStatus"
    ELSE batch_validate(milestones, Tail(indices))

\* The processing loop: total_released grows by the amount of every listed index.
RECURSIVE batch_released(_, _)
batch_released(milestones, indices) ==
    IF indices = << >> THEN 0
    ELSE milestones[Head(indices) + 1].amount + batch_released(milestones, Tail(indices))

RECURSIVE batch_approve(_, _)
batch_approve(milestones, indices) ==
    IF indices = << >> THEN milestones
    ELSE batch_approve([milestones EXCEPT ![Head(indices) + 1].status = "Approved"],
                       Tail(indices))

approve_milestones_batch(job_id, milestone_indices, client) ==
    IF ~JobExists(job_id) THEN EscrowFail("JobNotFound")
    ELSE LET job == jobs[job_id] IN
    IF job.client # client THEN EscrowFail("Unauthorized")
    ELSE IF batch_validate(job.milestones, milestone_indices) # "Ok"
    THEN EscrowFail(batch_validate(job.milestones, milestone_indices))
    ELSE LET total_released == batch_released(job.milestones, milestone_indices)
             milestones == batch_approve(job.milestones, milestone_indices)
             fee_amount == fee_of(total_released)
             freelancer_amount == total_released - fee_amount
             t1 == IF total_released > 0 /\ fee_amount > 0
                   THEN Transfer(Token(bal), EscrowAddr, TreasuryAddr, fee_amount)
                   ELSE Token(bal)
             t == IF total_released > 0
                  THEN Transfer(t1, EscrowAddr, job.freelancer, freelancer_amount)
                  ELSE t1
             status == IF all_approved(milestones) THEN "Completed" ELSE job.status
         IN
    IF ~t.ok THEN EscrowFail("HostError")
    ELSE EscrowOk(total_released,
                  [jobs EXCEPT ![job_id].milestones = milestones, ![job_id].status = status],
                  proposals, t.bal, paidIn,
                  [paidOut EXCEPT ![job_id] = @ + (bal[EscrowAddr] - t.bal[EscrowAddr])])

cancel_job(job_id, client) ==
    IF ~JobExists(job_id) THEN EscrowFail("JobNotFound")
    ELSE LET job == jobs[job_id] IN
    IF job.client # client THEN EscrowFail("Unauthorized")
    ELSE IF job.status \in {"Completed", "Cancelled"} THEN EscrowFail("InvalidStatus")
    ELSE LET refund == job.total_amount - approved_amount(job.milestones)
             t == IF refund > 0 /\ job.status \in {"Funded", "InProgress"}
                  THEN Transfer(Token(bal), EscrowAddr, client, refund)
                  ELSE Token(bal)
         IN
    IF ~t.ok THEN EscrowFail("HostError")
    ELSE EscrowOk(0, [jobs EXCEPT ![job_id].status = "Cancelled"], proposals, t.bal, paidIn,
                  [paidOut EXCEPT ![job_id] = @ + (bal[EscrowAddr] - t.bal[EscrowAddr])])

\* A refund that does not look at the submitted work.
has_pending_never(job) == FALSE

has_pending(job) ==
    \E i \in 1..Len(job.milestones) : job.milestones[i].status = "Submitted"

claim_refund(job_id, client) ==
    IF ~JobExists(job_id) THEN EscrowFail("JobNotFound")
    ELSE LET job == jobs[job_id] IN
    IF job.client # client THEN EscrowFail("Unauthorized")
    ELSE IF job.status \notin {"Funded", "InProgress"} THEN EscrowFail("InvalidStatus")
    ELSE IF now < job.job_deadline + job.auto_refund_after
    THEN EscrowFail("GracePeriodNotMet")
    ELSE IF has_pending(job) THEN EscrowFail("HasPendingMilestone")
    ELSE LET refund == job.total_amount - approved_amount(job.milestones) IN
    IF refund <= 0 THEN EscrowFail("NoRefundDue")
    ELSE LET t == Transfer(Token(bal), EscrowAddr, client, refund) IN
    IF ~t.ok THEN EscrowFail("HostError")
    ELSE EscrowOk(0, [jobs EXCEPT ![job_id].status = "Cancelled"], proposals, t.bal, paidIn,
                  [paidOut EXCEPT ![job_id] = @ + refund])

\* new_milestones: a sequence of Milestone records, statuses included (the caller
\* supplies whole Milestone values).
\* A check that never finds a proposal waiting.
pending_exists_never(job_id) == FALSE

\* A Pending proposal is stored under the job's RevisionProposal key.
pending_exists(job_id) ==
    proposals[job_id].exists /\ proposals[job_id].status = "Pending"

propose_revision(caller, job_id, new_milestones) ==
    IF ~JobExists(job_id) THEN EscrowFail("JobNotFound")
    ELSE LET job == jobs[job_id] IN
    IF caller # job.client /\ caller # job.freelancer
    THEN EscrowFail("NotAuthorizedForProposalAction")
    ELSE IF pending_exists(job_id) THEN EscrowFail("RevisionProposalAlreadyExists")
    ELSE IF new_milestones = << >> THEN EscrowFail("EmptyMilestonesProposed")
    ELSE LET new_total == SumAmounts(new_milestones) IN
    IF new_total <= 0 THEN EscrowFail("ProposalTotalMismatch")
    ELSE EscrowOk(0, jobs,
                  [proposals EXCEPT ![job_id] =
                      [exists |-> TRUE, proposer |-> caller,
                       new_milestones |-> new_milestones, new_total |-> new_total,
                       status |-> "Pending"]],
                  bal, paidIn, paidOut)

\* A check that takes no caller for the proposer.
is_proposer_never(caller, proposal) == FALSE

is_proposer(caller, proposal) == caller = proposal.proposer

\* A re-balancing that tops up and never refunds.
rebalance_top_up_only(b, job, delta) ==
    IF delta > 0 THEN Transfer(Token(b), job.client, EscrowAddr, delta) ELSE Token(b)

\* The transfer accept_revision makes for delta = new_total - old_total.
rebalance(b, job, delta) ==
    IF delta > 0 THEN Transfer(Token(b), job.client, EscrowAddr, delta)
    ELSE IF delta < 0 THEN Transfer(Token(b), EscrowAddr, job.client, -delta)
    ELSE Token(b)

\* A revision that installs the milestones and keeps the old total.
revised_keeps_total(job, proposal) ==
    [job EXCEPT !.milestones = proposal.new_milestones]

\* The job as accept_revision stores it.
revised(job, proposal) ==
    [job EXCEPT !.milestones = proposal.new_milestones,
                !.total_amount = proposal.new_total]

accept_revision(caller, job_id) ==
    IF ~JobExists(job_id) THEN EscrowFail("JobNotFound")
    ELSE LET job == jobs[job_id]
             proposal == proposals[job_id] IN
    IF ~proposal.exists THEN EscrowFail("RevisionProposalNotFound")
    ELSE IF proposal.status # "Pending" THEN EscrowFail("ProposalNotPending")
    ELSE IF caller # job.client /\ caller # job.freelancer
    THEN EscrowFail("NotAuthorizedForProposalAction")
    ELSE IF is_proposer(caller, proposal)
    THEN EscrowFail("NotAuthorizedForProposalAction")
    ELSE LET old_total == job.total_amount
             new_total == proposal.new_total
             delta == new_total - old_total
             t == rebalance(bal, job, delta)
         IN
    IF ~t.ok THEN EscrowFail("HostError")
    ELSE EscrowOk(0,
                  [jobs EXCEPT ![job_id] = revised(job, proposal)],
                  [proposals EXCEPT ![job_id].status = "Accepted"],
                  t.bal,
                  [paidIn EXCEPT ![job_id] = @ + (IF delta > 0 THEN delta ELSE 0)],
                  [paidOut EXCEPT ![job_id] = @ + (IF delta < 0 THEN -delta ELSE 0)])

\* A rejection that also drops the proposed milestones.
rejected_emptied(proposal) ==
    [proposal EXCEPT !.status = "Rejected", !.new_milestones = << >>]

\* The proposal as reject_revision stores it.
rejected(proposal) == [proposal EXCEPT !.status = "Rejected"]

reject_revision(caller, job_id) ==
    IF ~JobExists(job_id) THEN EscrowFail("JobNotFound")
    ELSE LET job == jobs[job_id]
             proposal == proposals[job_id] IN
    IF ~proposal.exists THEN EscrowFail("RevisionProposalNotFound")
    ELSE IF proposal.status # "Pending" THEN EscrowFail("ProposalNotPending")
    ELSE IF caller # job.client /\ caller # job.freelancer
    THEN EscrowFail("NotAuthorizedForProposalAction")
    ELSE IF is_proposer(caller, proposal)
    THEN EscrowFail("NotAuthorizedForProposalAction")
    ELSE EscrowOk(0, jobs, [proposals EXCEPT ![job_id] = rejected(proposal)],
                  bal, paidIn, paidOut)

\* Both parties of the job authorize the call.
extend_deadline(job_id, milestone_id, new_deadline) ==
    IF ~JobExists(job_id) THEN EscrowFail("JobNotFound")
    ELSE LET job == jobs[job_id] IN
    IF new_deadline <= now THEN EscrowFail("InvalidDeadline")
    ELSE IF milestone_id + 1 \notin 1..Len(job.milestones)
    THEN EscrowFail("MilestoneNotFound")
    ELSE EscrowOk(0, [jobs EXCEPT ![job_id].milestones[milestone_id + 1].deadline =
                                      new_deadline],
                  proposals, bal, paidIn, paidOut)

----------------------------------------------------------------------------
(* Dispute registry: records.                                              *)

DisputeExists(dispute_id) == dispute_id \in 1..Len(disputes)

\* The state a registry call leaves, and its result (ret: a number, out: a status,
\* callback: the arguments of the call made to the escrow, if one was made).
DisputeSame ==
    [res |-> "Ok", ret |-> 0, out |-> "", callback |-> << >>, disputes |-> disputes, votes |-> votes,
     hasVoted |-> hasVoted, voterRewarded |-> voterRewarded, bal |-> bal,
     escrowedIn |-> escrowedIn, paidOutD |-> paidOutD, rewardPaid |-> rewardPaid,
     callbacks |-> callbacks]
DisputeFail(e) == [DisputeSame EXCEPT !.res = e]

\* 2_u32.pow(n)
RECURSIVE Pow2(_)
Pow2(n) == IF n = 0 THEN 1 ELSE 2 * Pow2(n - 1)

\* A quorum that stays at min_votes in every round.
required_votes_no_doubling(dispute) == dispute.min_votes

required_votes(dispute) == dispute.min_votes * Pow2(dispute.appeal_count)

\* set_malicious_threshold(threshold), authorized by the stored admin: any u32 is
\* stored.
set_malicious_threshold(new_threshold) == [res |-> "Ok", threshold |-> new_threshold]

\* The share of the votes that went against the initiator, against the threshold.
is_malicious(dispute) ==
    LET total_votes == dispute.votes_for_client + dispute.votes_for_freelancer
        votes_against == IF dispute.initiator = dispute.client
                         THEN dispute.votes_for_freelancer
                         ELSE dispute.votes_for_client
    IN IF total_votes > 0
       THEN (votes_against * 100) \div total_votes > threshold
       ELSE FALSE

\* A resolution at an appeal count that no appeal can follow.
is_final_strict(dispute) == dispute.appeal_count > dispute.max_appeals

\* A resolution that treats every round as the last.
is_final_always(dispute) == TRUE

is_final(dispute) == dispute.appeal_count >= dispute.max_appeals

\* An appeal that opens the round with the tallies of the round before.
appealed_keeps_tallies(dispute) ==
    [dispute EXCEPT !.appeal_count = @ + 1, !.status = "Appealed"]

\* The dispute as raise_appeal stores it.
appealed(dispute) ==
    [dispute EXCEPT !.appeal_count = @ + 1, !.status = "Appealed",
                    !.votes_for_client = 0, !.votes_for_freelancer = 0]

\* A claim that leaves no VoterRewarded key.
mark_claimed_never(dispute_id, voter) == voterRewarded

\* env.storage().persistent().set(&rewarded_key, &true)
mark_claimed(dispute_id, voter) == voterRewarded \cup { << dispute_id, voter >> }

\* What the callee at `escrow` does with the call
\*   resolve_dispute_callback(job_id: u64, resolved_for_client: bool):
\* the escrow contract declares the second argument as a DisputeResolution, cannot
\* decode a bool and traps; the dummy contract accepts the call and does nothing.
callback_accepted(escrow) == escrow = DummyEscrowAddr

----------------------------------------------------------------------------
(* Dispute registry: entry points.                                         *)

raise_dispute(job_id, client, freelancer, initiator, min_votes, dispute_fee, penalty_stake) ==
    IF initiator # client /\ initiator # freelancer THEN DisputeFail("InvalidParty")
    ELSE LET t1 == IF dispute_fee > 0
                   THEN Transfer(Token(bal), initiator, RegistryAddr, dispute_fee)
                   ELSE Token(bal)
             t == IF penalty_stake > 0
                  THEN Transfer(t1, initiator, RegistryAddr, penalty_stake)
                  ELSE t1
             count == Len(disputes) + 1
             dispute == [job_id |-> job_id, client |-> client, freelancer |-> freelancer,
                         initiator |-> initiator, status |-> "Open",
                         votes_for_client |-> 0, votes_for_freelancer |-> 0,
                         min_votes |-> IF min_votes < MIN_VOTES_FLOOR
                                       THEN MIN_VOTES_FLOOR ELSE min_votes,
                         initiator_penalty_stake |-> penalty_stake,
                         appeal_count |-> 0, max_appeals |-> MAX_APPEALS,
                         appeal_deadline |-> 0, resolution_timestamp |-> 0,
                         dispute_fee |-> dispute_fee, malicious |-> FALSE]
         IN
    IF ~t.ok THEN DisputeFail("HostError")
    ELSE [DisputeSame EXCEPT
             !.ret = count,
             !.disputes = Append(disputes, dispute),
             !.votes = Append(votes, << >>),
             !.bal = t.bal,
             !.escrowedIn = [escrowedIn EXCEPT
                                ![count] = t.bal[RegistryAddr] - bal[RegistryAddr]]]

\* A registry that takes votes in every status.
voting_open_always(dispute) == TRUE

\* The statuses in which cast_vote goes on to record a vote.
voting_open(dispute) == dispute.status \in {"Open", "Voting", "Appealed"}

cast_vote(dispute_id, voter, choice) ==
    IF ~DisputeExists(dispute_id) THEN DisputeFail("DisputeNotFound")
    ELSE LET dispute == disputes[dispute_id] IN
    IF ~voting_open(dispute) THEN DisputeFail("VotingClosed")
    ELSE IF voter = dispute.client \/ voter = dispute.freelancer
    THEN DisputeFail("InvalidParty")
    ELSE IF << dispute_id, voter >> \in hasVoted THEN DisputeFail("AlreadyVoted")
    ELSE [DisputeSame EXCEPT
             !.votes = [votes EXCEPT ![dispute_id] =
                           Append(@, [voter |-> voter, choice |-> choice])],
             !.disputes = [disputes EXCEPT
                 ![dispute_id].votes_for_client =
                     IF choice = "Client" THEN @ + 1 ELSE @,
                 ![dispute_id].votes_for_freelancer =
                     IF choice = "Freelancer" THEN @ + 1 ELSE @,
                 ![dispute_id].status = "Voting"],
             !.hasVoted = hasVoted \cup { << dispute_id, voter >> }]

\* A rule under which a tie goes to the freelancer.
resolved_for_client_strict(dispute) ==
    dispute.votes_for_client > dispute.votes_for_freelancer

resolved_for_client(dispute) ==
    dispute.votes_for_client >= dispute.votes_for_freelancer

resolve_dispute(dispute_id, escrow, malicious) ==
    IF ~DisputeExists(dispute_id) THEN DisputeFail("DisputeNotFound")
    ELSE LET dispute == disputes[dispute_id] IN
    IF dispute.status = "FinalResolution" THEN DisputeFail("AlreadyResolved")
    ELSE LET total_votes == dispute.votes_for_client + dispute.votes_for_freelancer IN
    IF total_votes < required_votes(dispute) THEN DisputeFail("NotEnoughVotes")
    ELSE LET status == IF is_final(dispute) THEN "FinalResolution"
                       ELSE IF resolved_for_client(dispute) THEN "ResolvedForClient"
                       ELSE "ResolvedForFreelancer"
             refund_to == IF resolved_for_client(dispute) THEN dispute.client
                          ELSE dispute.freelancer
             t1 == IF malicious /\ dispute.dispute_fee > 0
                   THEN Transfer(Token(bal), RegistryAddr, refund_to, dispute.dispute_fee)
                   ELSE Token(bal)
             \* The stake goes by the stored status, which is FinalResolution at the
             \* final round.
             winner == IF status = "ResolvedForClient" THEN dispute.client
                       ELSE dispute.freelancer
             t == IF dispute.initiator_penalty_stake > 0
                  THEN Transfer(t1, RegistryAddr,
                                IF is_malicious(dispute) THEN winner ELSE dispute.initiator,
                                dispute.initiator_penalty_stake)
                  ELSE t1
         IN
    IF is_final(dispute) /\ ~callback_accepted(escrow) THEN DisputeFail("HostError")
    ELSE IF ~t.ok THEN DisputeFail("HostError")
    ELSE [DisputeSame EXCEPT
             !.out = status,
             !.callback = IF is_final(dispute)
                          THEN << dispute.job_id, resolved_for_client(dispute) >>
                          ELSE << >>,
             !.disputes = [disputes EXCEPT
                 ![dispute_id].status = status,
                 ![dispute_id].resolution_timestamp = now,
                 ![dispute_id].appeal_deadline = sequence + APPEAL_WINDOW,
                 ![dispute_id].malicious = malicious],
             !.bal = t.bal,
             !.paidOutD = [paidOutD EXCEPT
                              ![dispute_id] = @ + (bal[RegistryAddr] - t.bal[RegistryAddr])],
             !.callbacks = [callbacks EXCEPT
                               ![dispute_id] = IF is_final(dispute) THEN @ + 1 ELSE @]]

\* An appeal either party may raise.
is_losing_party_either(dispute, appellant) ==
    appellant \in { dispute.client, dispute.freelancer }

is_losing_party(dispute, appellant) ==
    CASE dispute.status = "ResolvedForClient" -> appellant = dispute.freelancer
      [] dispute.status = "ResolvedForFreelancer" -> appellant = dispute.client
      [] OTHER -> FALSE

raise_appeal(dispute_id, appellant) ==
    IF ~DisputeExists(dispute_id) THEN DisputeFail("DisputeNotFound")
    ELSE LET dispute == disputes[dispute_id] IN
    IF dispute.appeal_count >= dispute.max_appeals THEN DisputeFail("MaxAppealsReached")
    ELSE IF dispute.status \notin
                {"ResolvedForClient", "ResolvedForFreelancer", "FinalResolution"}
    THEN DisputeFail("CannotAppealBeforeResolution")
    ELSE IF dispute.status = "FinalResolution" THEN DisputeFail("MaxAppealsReached")
    ELSE IF sequence > dispute.appeal_deadline THEN DisputeFail("AppealWindowExpired")
    ELSE IF ~is_losing_party(dispute, appellant) THEN DisputeFail("NotLosingParty")
    ELSE [DisputeSame EXCEPT
             !.disputes = [disputes EXCEPT ![dispute_id] = appealed(dispute)],
             !.votes = [votes EXCEPT ![dispute_id] = << >>]]

winning_choice(dispute) ==
    IF dispute.status = "ResolvedForClient" THEN "Client"
    ELSE IF dispute.votes_for_client >= dispute.votes_for_freelancer THEN "Client"
    ELSE "Freelancer"

voter_on_winning_side(dispute_id, voter) ==
    \E i \in 1..Len(votes[dispute_id]) :
        /\ votes[dispute_id][i].voter = voter
        /\ votes[dispute_id][i].choice = winning_choice(disputes[dispute_id])

\* A divisor that counts the votes of both sides.
winning_count_all_votes(dispute) ==
    dispute.votes_for_client + dispute.votes_for_freelancer

winning_count(dispute) ==
    IF winning_choice(dispute) = "Client" THEN dispute.votes_for_client
    ELSE dispute.votes_for_freelancer

\* A gate that lets the voters of a malicious dispute claim.
reward_refused_fee_only(dispute) == dispute.dispute_fee <= 0

\* The two checks that return NoRewardAvailable before the claimed flag is read.
reward_refused(dispute) == dispute.malicious \/ dispute.dispute_fee <= 0

claim_voter_reward(dispute_id, voter) ==
    IF ~DisputeExists(dispute_id) THEN DisputeFail("DisputeNotFound")
    ELSE LET dispute == disputes[dispute_id] IN
    IF dispute.status \notin
           {"ResolvedForClient", "ResolvedForFreelancer", "FinalResolution"}
    THEN DisputeFail("DisputeNotResolved")
    ELSE IF reward_refused(dispute) THEN DisputeFail("NoRewardAvailable")
    ELSE IF << dispute_id, voter >> \in voterRewarded THEN DisputeFail("AlreadyClaimed")
    ELSE IF ~voter_on_winning_side(dispute_id, voter) THEN DisputeFail("NotWinningVoter")
    ELSE IF winning_count(dispute) = 0 THEN DisputeFail("NoRewardAvailable")
    ELSE LET reward == Div(dispute.dispute_fee, winning_count(dispute)) IN
    IF reward <= 0 THEN DisputeFail("NoRewardAvailable")
    ELSE LET t == Transfer(Token(bal), RegistryAddr, voter, reward) IN
    IF ~t.ok THEN DisputeFail("HostError")
    ELSE [DisputeSame EXCEPT
             !.ret = reward,
             !.bal = t.bal,
             !.voterRewarded = mark_claimed(dispute_id, voter),
             !.paidOutD = [paidOutD EXCEPT ![dispute_id] = @ + reward],
             !.rewardPaid = [rewardPaid EXCEPT ![dispute_id] = @ + reward]]

\* The view: no state change, 0 wherever claim_voter_reward would return an error
\* of its own.
get_claimable_reward(dispute_id, voter) ==
    IF ~DisputeExists(dispute_id) THEN 0
    ELSE LET dispute == disputes[dispute_id] IN
    IF \/ dispute.status \notin
              {"ResolvedForClient", "ResolvedForFreelancer", "FinalResolution"}
       \/ dispute.malicious
       \/ dispute.dispute_fee <= 0
    THEN 0
    ELSE IF << dispute_id, voter >> \in voterRewarded THEN 0
    ELSE IF ~voter_on_winning_side(dispute_id, voter) THEN 0
    ELSE IF winning_count(dispute) = 0 THEN 0
    ELSE Div(dispute.dispute_fee, winning_count(dispute))

----------------------------------------------------------------------------
(* Inputs of the escrow calls.                                             *)

InitialFunds == 100
\* initialize(admin, treasury, fee_bps): the fee the contract is deployed with.
FeeBpsInputs == { MAX_FEE_BPS }
DeadlineInputs == { 1 }
GraceInputs == { 1 }
\* create_job's milestone lists: <<amount, deadline>> pairs.
MilestoneInputs == { << <<1, 1>>, <<25, 1>> >>, << <<25, 1>> >> }
\* propose_revision's milestone lists.
M(amount, status) == [amount |-> amount, status |-> status, deadline |-> 1]
\* propose_revision stores the milestones as given, their statuses included.
ProposalInputs == { << M(5, "Pending"), M(25, "Pending") >>,
                    << M(5, "Pending") >>,
                    << M(25, "Pending"), M(25, "Pending") >>,
                    << M(25, "Approved") >> }
MilestoneIds == 0..2
RECURSIVE SeqsUpTo(_, _)
SeqsUpTo(S, n) ==
    IF n = 0 THEN { << >> }
    ELSE SeqsUpTo(S, n - 1)
         \cup { Append(q, x) : q \in { r \in SeqsUpTo(S, n - 1) : Len(r) = n - 1 }, x \in S }
BatchInputs == SeqsUpTo(MilestoneIds, MaxBatchLen)
Resolutions == { "ClientWins", "FreelancerWins", "RefundBoth", "Escalate" }

\* initialize(admin, threshold): the threshold the registry is deployed with.
ThresholdInputs == { DEFAULT_THRESHOLD }

\* set_malicious_threshold(threshold): the values the admin sets it to.
ThresholdChoices == { 50, DEFAULT_THRESHOLD }

NoIdx == << >>
Call(op, id, who, idx, ret, out) ==
    [op |-> op, id |-> id, who |-> who, idx |-> idx, ret |-> ret, out |-> out]

----------------------------------------------------------------------------
(* Initial state: both contracts deployed and initialized, nothing stored. *)

InitWith(fees) ==
    /\ jobs = << >>
    /\ proposals = << >>
    /\ fee_bps \in fees
    /\ bal = [a \in Addresses |->
                 IF a \in Parties THEN InitialFunds ELSE 0]
    /\ now = 0
    /\ sequence = 0
    /\ paidIn = [j \in JobIds |-> 0]
    /\ paidOut = [j \in JobIds |-> 0]
    /\ revisions = [j \in JobIds |-> 0]
    /\ disputes = << >>
    /\ votes = << >>
    /\ hasVoted = {}
    /\ voterRewarded = {}
    /\ escrowedIn = [d \in DisputeIds |-> 0]
    /\ paidOutD = [d \in DisputeIds |-> 0]
    /\ rewardPaid = [d \in DisputeIds |-> 0]
    /\ callbacks = [d \in DisputeIds |-> 0]
    /\ claimed = {}
    /\ threshold \in ThresholdInputs
    /\ last = Call("init", 0, "", NoIdx, 0, "")

Init == InitWith(FeeBpsInputs)

----------------------------------------------------------------------------
(* Escrow actions: a call that returns Ok is committed.                    *)

EscrowCommit(r, call) ==
    /\ jobs' = r.jobs
    /\ proposals' = r.proposals
    /\ bal' = r.bal
    /\ paidIn' = r.paidIn
    /\ paidOut' = r.paidOut
    /\ last' = call
    /\ revisions' = IF call.op = "propose_revision"
                    THEN [revisions EXCEPT ![call.id] = @ + 1] ELSE revisions
    /\ UNCHANGED << fee_bps, now, sequence, disputeVars >>

CreateJob ==
    /\ Len(jobs) < MaxJobs
    /\ \E ms \in MilestoneInputs, dl \in DeadlineInputs, grace \in GraceInputs :
          LET r == create_job(ClientAddr, FreelancerAddr, ms, dl, grace) IN
          /\ r.res = "Ok"
          /\ EscrowCommit(r, Call("create_job", r.ret, ClientAddr, NoIdx, 0, ""))

FundJob ==
    \E j \in JobIds, c \in Callers :
        LET r == fund_job(j, c) IN
        /\ r.res = "Ok"
        /\ EscrowCommit(r, Call("fund_job", j, c, NoIdx, 0, ""))

SubmitMilestone ==
    \E j \in ActiveJobIds, m \in MilestoneIds, c \in Callers :
        LET r == submit_milestone(j, m, c) IN
        /\ r.res = "Ok"
        /\ EscrowCommit(r, Call("submit_milestone", j, c, << m >>, 0, ""))

ApproveMilestone ==
    \E j \in ActiveJobIds, m \in MilestoneIds, c \in Callers :
        LET r == approve_milestone(j, m, c) IN
        /\ r.res = "Ok"
        /\ EscrowCommit(r, Call("approve_milestone", j, c, << m >>, 0, ""))

ApproveMilestonesBatch ==
    \E j \in ActiveJobIds, ix \in BatchInputs, c \in Callers :
        LET r == approve_milestones_batch(j, ix, c) IN
        /\ r.res = "Ok"
        /\ EscrowCommit(r, Call("approve_milestones_batch", j, c, ix, r.ret, ""))

CancelJob ==
    \E j \in ActiveJobIds, c \in Callers :
        LET r == cancel_job(j, c) IN
        /\ r.res = "Ok"
        /\ EscrowCommit(r, Call("cancel_job", j, c, NoIdx, 0, ""))

ClaimRefund ==
    \E j \in ActiveJobIds, c \in Callers :
        LET r == claim_refund(j, c) IN
        /\ r.res = "Ok"
        /\ EscrowCommit(r, Call("claim_refund", j, c, NoIdx, 0, ""))

ProposeRevision ==
    \E j \in ActiveJobIds, c \in Callers, ms \in ProposalInputs :
        LET r == propose_revision(c, j, ms) IN
        /\ revisions[j] < MaxRevisions
        /\ r.res = "Ok"
        /\ EscrowCommit(r, Call("propose_revision", j, c, NoIdx, 0, ""))

AcceptRevision ==
    \E j \in ActiveJobIds, c \in Callers :
        LET r == accept_revision(c, j) IN
        /\ r.res = "Ok"
        /\ EscrowCommit(r, Call("accept_revision", j, c, NoIdx, 0, ""))

RejectRevision ==
    \E j \in ActiveJobIds, c \in Callers :
        LET r == reject_revision(c, j) IN
        /\ r.res = "Ok"
        /\ EscrowCommit(r, Call("reject_revision", j, c, NoIdx, 0, ""))

ExtendDeadline ==
    \E j \in ActiveJobIds, m \in MilestoneIds, dl \in DeadlineInputs :
        LET r == extend_deadline(j, m, dl) IN
        /\ r.res = "Ok"
        /\ EscrowCommit(r, Call("extend_deadline", j, "", << m >>, 0, ""))

\* The callback is a public entry point of the escrow: it checks no caller.
ResolveDisputeCallback ==
    \E j \in ActiveJobIds, res \in Resolutions :
        LET r == resolve_dispute_callback(j, res) IN
        /\ r.res = "Ok"
        /\ EscrowCommit(r, Call("resolve_dispute_callback", j, "", NoIdx,
                                bal[EscrowAddr] - r.bal[EscrowAddr], res))

\* The ledger closes: time and the ledger sequence advance.
Tick ==
    /\ now < MaxTime
    /\ now' = now + 1
    /\ sequence' = sequence + 1
    /\ last' = Call("tick", 0, "", NoIdx, 0, "")
    /\ UNCHANGED << bal, escrowVars, disputeVars >>

EscrowNext ==
    \/ CreateJob
    \/ FundJob
    \/ SubmitMilestone
    \/ ApproveMilestone
    \/ ApproveMilestonesBatch
    \/ CancelJob
    \/ ClaimRefund
    \/ ProposeRevision
    \/ AcceptRevision
    \/ RejectRevision
    \/ ExtendDeadline
    \/ ResolveDisputeCallback
    \/ Tick

SpecEscrow == Init /\ [][EscrowNext]_vars

----------------------------------------------------------------------------
(* Inputs of the registry calls.                                           *)

\* raise_dispute's min_votes: below the floor, at the floor, above the floor.
MinVotesInputs == { 1, MIN_VOTES_FLOOR }
RoundsMinVotesInputs == { 1, MIN_VOTES_FLOOR + 1 }
PoolFee == 10
DisputeFeeInputs == { 0, PoolFee }
StakeInputs == { 0, 7 }
Choices == { "Client", "Freelancer" }
\* The rounds in which the reward specification casts votes.
RewardRounds == { 0 }
AppealRewardRounds == { 0, 1 }

\* Addresses are opaque, so of the addresses that have not voted on a dispute one
\* stands for all: the first in the order of Voters.
voted_on(d) == { v \in VoterSet : << d, v >> \in hasVoted }
VoterInputs(d) ==
    voted_on(d) \cup
    (IF Cardinality(voted_on(d)) < Len(Voters)
     THEN { Voters[Cardinality(voted_on(d)) + 1] } ELSE {})

\* The votes cast in one round stop at the quorum of the round plus ExtraVotes, and
\* no vote is cast in a round whose quorum is above MaxQuorum.
RoundOpen(d) ==
    /\ required_votes(disputes[d]) <= MaxQuorum
    /\ disputes[d].votes_for_client + disputes[d].votes_for_freelancer
           < required_votes(disputes[d]) + ExtraVotes

----------------------------------------------------------------------------
(* Registry actions: a call that returns Ok is committed.                  *)

DisputeCommit(r, call) ==
    /\ disputes' = r.disputes
    /\ votes' = r.votes
    /\ hasVoted' = r.hasVoted
    /\ voterRewarded' = r.voterRewarded
    /\ bal' = r.bal
    /\ escrowedIn' = r.escrowedIn
    /\ paidOutD' = r.paidOutD
    /\ rewardPaid' = r.rewardPaid
    /\ callbacks' = r.callbacks
    /\ claimed' = IF call.op = "claim_voter_reward"
                  THEN claimed \cup { << call.id, call.who >> } ELSE claimed
    /\ last' = call
    /\ UNCHANGED << threshold, now, sequence, escrowVars >>

SetMaliciousThreshold ==
    \E t \in ThresholdChoices :
        LET r == set_malicious_threshold(t) IN
        /\ r.res = "Ok"
        /\ threshold' = r.threshold
        /\ last' = Call("set_malicious_threshold", 0, "", NoIdx, t, "")
        /\ UNCHANGED << disputes, votes, hasVoted, voterRewarded, escrowedIn, paidOutD,
                        rewardPaid, callbacks, claimed, bal, now, sequence, escrowVars >>

\* The first dispute, the one the later calls are made on.
RaiseDisputeWith(initiators, mins, fees, stakes) ==
    /\ Len(disputes) = 0
    /\ \E i \in initiators, mv \in mins, fee \in fees, stake \in stakes :
          LET r == raise_dispute(1, ClientAddr, FreelancerAddr, i, mv, fee, stake) IN
          /\ r.res = "Ok"
          /\ DisputeCommit(r, Call("raise_dispute", r.ret, i, NoIdx, 0, ""))

RaiseDispute == RaiseDisputeWith(Callers, MinVotesInputs, DisputeFeeInputs, StakeInputs)

\* A dispute without fee and stake.
RaiseDisputeNoFee == RaiseDisputeWith(Callers, RoundsMinVotesInputs, { 0 }, { 0 })

\* A dispute the client raises, with a fee and no stake.
RaiseDisputeByClient == RaiseDisputeWith({ ClientAddr }, MinVotesInputs, { PoolFee }, { 0 })

\* The disputes of other jobs: their fees sit in the registry's token balance.
RaiseOtherDispute ==
    /\ Len(disputes) \in 1..(MaxDisputes - 1)
    /\ LET r == raise_dispute(Len(disputes) + 1, ClientAddr, FreelancerAddr, ClientAddr,
                              MIN_VOTES_FLOOR, PoolFee, 0) IN
       /\ r.res = "Ok"
       /\ DisputeCommit(r, Call("raise_dispute", r.ret, ClientAddr, NoIdx, 0, ""))

CastVoteIn(rounds) ==
    \E d \in ActiveDisputeIds, c \in Choices :
        /\ DisputeExists(d)
        /\ disputes[d].appeal_count \in rounds
        /\ RoundOpen(d)
        /\ \E v \in VoterInputs(d) \cup Parties :
              LET r == cast_vote(d, v, c) IN
              /\ r.res = "Ok"
              /\ DisputeCommit(r, Call("cast_vote", d, v, NoIdx, 0, c))

CastVote == CastVoteIn(0..MAX_APPEALS)

CastVoteRewardRounds == CastVoteIn(RewardRounds)

CastVoteAppealRewardRounds == CastVoteIn(AppealRewardRounds)

ResolveDisputeWith(flags) ==
    \E d \in ActiveDisputeIds, e \in EscrowInputs, m \in flags :
        LET r == resolve_dispute(d, e, m) IN
        /\ r.res = "Ok"
        /\ DisputeCommit(r, Call("resolve_dispute", d, e, r.callback, 0, r.out))

ResolveDispute == ResolveDisputeWith(BOOLEAN)

\* Resolutions whose caller does not flag the dispute as malicious.
ResolveDisputeUnflagged == ResolveDisputeWith({ FALSE })

RaiseAppeal ==
    \E d \in ActiveDisputeIds, a \in Callers :
        LET r == raise_appeal(d, a) IN
        /\ r.res = "Ok"
        /\ DisputeCommit(r, Call("raise_appeal", d, a, NoIdx, 0, ""))

ClaimVoterReward ==
    \E d \in ActiveDisputeIds, v \in VoterSet \cup Parties :
        LET r == claim_voter_reward(d, v) IN
        /\ r.res = "Ok"
        /\ DisputeCommit(r, Call("claim_voter_reward", d, v, NoIdx, r.ret, ""))

\* The rounds of one dispute, no money involved.
RoundsNext ==
    \/ RaiseDisputeNoFee
    \/ CastVote
    \/ ResolveDispute
    \/ RaiseAppeal
    \/ SetMaliciousThreshold

SpecRounds == Init /\ [][RoundsNext]_vars

\* Fees, stakes and rewards, the votes cast in the first round.
RewardsNext ==
    \/ RaiseDispute
    \/ RaiseOtherDispute
    \/ CastVoteRewardRounds
    \/ ResolveDispute
    \/ RaiseAppeal
    \/ ClaimVoterReward
    \/ SetMaliciousThreshold

SpecRewards == Init /\ [][RewardsNext]_vars

\* Rewards across an appeal: disputes the client raises with a fee, resolved
\* without the malicious flag, the votes cast in the first two rounds.
AppealRewardsNext ==
    \/ RaiseDisputeByClient
    \/ RaiseOtherDispute
    \/ CastVoteAppealRewardRounds
    \/ ResolveDisputeUnflagged
    \/ RaiseAppeal
    \/ ClaimVoterReward
    \/ SetMaliciousThreshold

SpecAppealRewards == Init /\ [][AppealRewardsNext]_vars

\* A dispute with a penalty stake and no fee, through all its rounds. The stake is
\* paid at every resolution, so the later rounds resolve only while the registry
\* holds the fee of another dispute.
RaiseDisputeStaked ==
    RaiseDisputeWith(Callers, MinVotesInputs, { 0 }, { PoolFee \div 2 })

StakeNext ==
    \/ RaiseDisputeStaked
    \/ RaiseOtherDispute
    \/ CastVote
    \/ ResolveDisputeUnflagged
    \/ RaiseAppeal
    \/ SetMaliciousThreshold

SpecStake == Init /\ [][StakeNext]_vars

\* The two contracts side by side: jobs are created and funded in the escrow while
\* a dispute about job 1 goes through its first rounds in the registry.
BridgeRounds == { 0, 1 }

CastVoteBridgeRounds == CastVoteIn(BridgeRounds)

BridgeNext ==
    \/ CreateJob
    \/ FundJob
    \/ RaiseDisputeByClient
    \/ CastVoteBridgeRounds
    \/ ResolveDispute
    \/ RaiseAppeal
    \/ SetMaliciousThreshold

SpecBridge == Init /\ [][BridgeNext]_vars

\* The appeal window: ledgers close between the calls, a window's length or one
\* more at a time, while a dispute goes through its first two rounds and appeals.
MaxSequence == 202
LedgerJumps == { APPEAL_WINDOW, APPEAL_WINDOW + 1 }

CloseLedgers ==
    \E n \in LedgerJumps :
        /\ sequence + n <= MaxSequence
        /\ sequence' = sequence + n
        /\ now' = now + n
        /\ last' = Call("tick", 0, "", NoIdx, n, "")
        /\ UNCHANGED << bal, escrowVars, disputeVars >>

WindowNext ==
    \/ RaiseDisputeNoFee
    \/ CastVoteBridgeRounds
    \/ ResolveDispute
    \/ RaiseAppeal
    \/ CloseLedgers
    \/ SetMaliciousThreshold

SpecWindow == Init /\ [][WindowNext]_vars

\* Amounts are i128 and the callers choose them: jobs and revisions whose milestone
\* amounts include zero and negative values.
SignedMilestoneInputs == { << <<0, 1>> >>, << <<-5, 1>>, <<30, 1>> >>, << <<25, 1>> >> }
SignedProposalInputs == { << M(0, "Pending"), M(25, "Pending") >>,
                          << M(-5, "Pending"), M(30, "Pending") >>,
                          << M(-5, "Pending") >>,
                          << M(5, "Pending") >> }

CreateJobSigned ==
    /\ Len(jobs) < MaxJobs
    /\ \E ms \in SignedMilestoneInputs, dl \in DeadlineInputs, grace \in GraceInputs :
          LET r == create_job(ClientAddr, FreelancerAddr, ms, dl, grace) IN
          /\ r.res = "Ok"
          /\ EscrowCommit(r, Call("create_job", r.ret, ClientAddr, NoIdx, 0, ""))

ProposeRevisionSigned ==
    \E j \in ActiveJobIds, c \in Callers, ms \in SignedProposalInputs :
        LET r == propose_revision(c, j, ms) IN
        /\ revisions[j] < MaxRevisions
        /\ r.res = "Ok"
        /\ EscrowCommit(r, Call("propose_revision", j, c, NoIdx, 0, ""))

AmountsNext ==
    \/ CreateJobSigned
    \/ FundJob
    \/ SubmitMilestone
    \/ ApproveMilestone
    \/ ProposeRevisionSigned
    \/ AcceptRevision
    \/ RejectRevision

SpecAmounts == Init /\ [][AmountsNext]_vars

\* Revisions of one job, proposed more than once, next to a second job whose funds
\* sit in the same token balance.
MaxProposals == 2

ProposeRevisionAgain ==
    \E j \in ActiveJobIds, c \in Callers, ms \in ProposalInputs :
        LET r == propose_revision(c, j, ms) IN
        /\ revisions[j] < MaxProposals
        /\ r.res = "Ok"
        /\ EscrowCommit(r, Call("propose_revision", j, c, NoIdx, 0, ""))

RevisionsNext ==
    \/ CreateJob
    \/ FundJob
    \/ CancelJob
    \/ ProposeRevisionAgain
    \/ AcceptRevision
    \/ RejectRevision

SpecRevisions == Init /\ [][RevisionsNext]_vars

\* The fee: the contract initialized with one of several fee_bps values, the admin
\* changing it between the calls.
FeeInputs == { 0, 400, MAX_FEE_BPS, MAX_FEE_BPS + 1 }

InitFees == InitWith({ initialize(f).fee_bps : f \in { g \in FeeInputs : initialize(g).res = "Ok" } })

SetFeeBps ==
    \E f \in FeeInputs :
        LET r == set_fee_bps(f) IN
        /\ r.res = "Ok"
        /\ fee_bps' = r.fee_bps
        /\ last' = Call("set_fee_bps", 0, "", NoIdx, f, "")
        /\ UNCHANGED << jobs, proposals, bal, paidIn, paidOut, revisions, now, sequence,
                        disputeVars >>

FeesNext ==
    \/ CreateJob
    \/ FundJob
    \/ SubmitMilestone
    \/ ApproveMilestone
    \/ ApproveMilestonesBatch
    \/ SetFeeBps

SpecFees == InitFees /\ [][FeesNext]_vars

----------------------------------------------------------------------------
(* Claims about the escrow.                                                *)

custody(j) == paidIn[j] - paidOut[j]
remaining(j) == jobs[j].total_amount - approved_amount(jobs[j].milestones)

\* C1: fund conservation. For every job whose status is Funded or InProgress, the
\* funds held in custody for the job equal total_amount minus the sum of the
\* amounts of its Approved milestones.
C1_FundConservation ==
    \A j \in 1..Len(jobs) :
        jobs[j].status \in {"Funded", "InProgress"} => custody(j) = remaining(j)

\* C2: no double payment. The cumulative amount the escrow transferred out on
\* behalf of a job never exceeds the cumulative amount the client transferred in
\* for that job.
C2_NoDoublePayment ==
    \A j \in 1..Len(jobs) : paidOut[j] <= paidIn[j]

BadIndex(j, ix) ==
    \E i \in 1..Len(ix) :
        \/ ix[i] + 1 \notin 1..Len(jobs[j].milestones)
        \/ jobs[j].milestones[ix[i] + 1].status # "Submitted"

\* C10: batch atomicity. If any index passed to approve_milestones_batch is out of
\* range or refers to a milestone that is not Submitted, the call fails with
\* MilestoneNotFound or InvalidStatus and no milestone status, job status or
\* balance changes.
C10_BatchAtomicity ==
    \A j \in 1..Len(jobs), ix \in BatchInputs :
        BadIndex(j, ix) =>
            LET r == approve_milestones_batch(j, ix, jobs[j].client) IN
            /\ r.res \in {"MilestoneNotFound", "InvalidStatus"}
            /\ r.jobs = jobs
            /\ r.bal = bal
            /\ r.paidOut = paidOut

\* A Submitted milestone listed before a bad index, the call failing.
C10_Witness ==
    \E j \in 1..Len(jobs), ix \in BatchInputs :
        /\ Len(ix) = 2
        /\ ix[1] + 1 \in 1..Len(jobs[j].milestones)
        /\ jobs[j].milestones[ix[1] + 1].status = "Submitted"
        /\ BadIndex(j, ix)
        /\ approve_milestones_batch(j, ix, jobs[j].client).res = "InvalidStatus"
        /\ bal[EscrowAddr] >= jobs[j].milestones[ix[1] + 1].amount

----------------------------------------------------------------------------
(* Claims about the dispute registry.                                      *)

total_votes(d) == disputes[d].votes_for_client + disputes[d].votes_for_freelancer

\* C3: no value created in the registry. The cumulative amount the registry pays
\* out for a dispute (fee refunds, stake returns or slashes, voter rewards) never
\* exceeds the dispute_fee plus the penalty stake escrowed by raise_dispute.
C3_NoValueCreated ==
    \A d \in 1..Len(disputes) :
        paidOutD[d] <= disputes[d].dispute_fee + disputes[d].initiator_penalty_stake

\* C4: appeal doubling. min_votes is at least 3, and in round k = appeal_count
\* resolve_dispute fails with NotEnoughVotes and changes no state whenever the
\* votes cast in the round are fewer than min_votes * 2^k.
C4_AppealDoubling ==
    \A d \in 1..Len(disputes) :
        /\ disputes[d].min_votes >= 3
        /\ \A e \in EscrowInputs, m \in BOOLEAN :
              total_votes(d) < disputes[d].min_votes * 2^(disputes[d].appeal_count) =>
                  LET r == resolve_dispute(d, e, m) IN
                  /\ r.res = "NotEnoughVotes"
                  /\ r.disputes = disputes
                  /\ r.bal = bal
                  /\ r.callbacks = callbacks

\* Round 2 of a min_votes = 3 dispute with 11 votes: one short of the quorum.
C4_Witness ==
    \E d \in 1..Len(disputes) :
        /\ disputes[d].min_votes = 3
        /\ disputes[d].appeal_count = 2
        /\ total_votes(d) = 11
        /\ resolve_dispute(d, DummyEscrowAddr, FALSE).res = "NotEnoughVotes"

\* C5: a successful resolve_dispute yields FinalResolution exactly when
\* appeal_count >= max_appeals (= 2) and ResolvedForClient or ResolvedForFreelancer
\* otherwise; the callback is invoked in exactly the final case; a resolve_dispute
\* on a FinalResolution dispute fails with AlreadyResolved, so the callback fires at
\* most once for a dispute.
C5_FinalAtMaxAppeals ==
    /\ [](\A d \in 1..Len(disputes) :
             disputes[d].status = "FinalResolution" =>
                 \A e \in EscrowInputs, m \in BOOLEAN :
                     resolve_dispute(d, e, m).res = "AlreadyResolved")
    /\ [][last'.op = "resolve_dispute" =>
             LET d == last'.id
                 final == disputes[d].appeal_count >= 2
             IN /\ (last'.out = "FinalResolution") <=> final
                /\ ~final => last'.out \in {"ResolvedForClient", "ResolvedForFreelancer"}
                /\ disputes'[d].status = last'.out
                /\ callbacks'[d] = callbacks[d] + (IF final THEN 1 ELSE 0)
                /\ callbacks'[d] <= 1]_vars

\* The final resolution of a dispute, its callback delivered.
C5_Witness ==
    /\ last.op = "resolve_dispute"
    /\ last.out = "FinalResolution"
    /\ disputes[last.id].appeal_count = 2
    /\ callbacks[last.id] = 1

\* C6: vote reset on appeal. Immediately after a successful raise_appeal both
\* tallies are 0, the stored vote list is empty, the status is Appealed and
\* appeal_count has increased by exactly 1.
C6_VoteResetOnAppeal ==
    [][last'.op = "raise_appeal" =>
          LET d == last'.id IN
          /\ disputes'[d].votes_for_client = 0
          /\ disputes'[d].votes_for_freelancer = 0
          /\ votes'[d] = << >>
          /\ disputes'[d].status = "Appealed"
          /\ disputes'[d].appeal_count = disputes[d].appeal_count + 1]_vars

\* An appeal that followed a round of six votes.
C6_Witness ==
    /\ last.op = "raise_appeal"
    /\ disputes[last.id].appeal_count = 2
    /\ Cardinality(voted_on(last.id)) >= 9
    /\ votes[last.id] = << >>

in_current_round(d, v) == \E i \in 1..Len(votes[d]) : votes[d][i].voter = v

\* C7: re-voting after appeal. An address that voted in an earlier round of a
\* dispute and has not voted in the round raise_appeal opened can cast a vote.
C7_RevoteAfterAppeal ==
    \A d \in 1..Len(disputes), v \in VoterSet, c \in Choices :
        ( /\ disputes[d].appeal_count > 0
          /\ disputes[d].status \in {"Appealed", "Voting"}
          /\ << d, v >> \in hasVoted
          /\ ~in_current_round(d, v) )
        => cast_vote(d, v, c).res = "Ok"

\* C8: reward partition. The sum of all rewards claim_voter_reward paid for a
\* dispute is at most its dispute_fee.
C8_RewardPartition ==
    \A d \in 1..Len(disputes) : rewardPaid[d] <= disputes[d].dispute_fee

\* C9: single claim, as claimed. Once claim_voter_reward has succeeded for a
\* (dispute, voter) pair, every later claim for the pair fails with AlreadyClaimed.
C9_SingleClaim ==
    \A p \in claimed : claim_voter_reward(p[1], p[2]).res = "AlreadyClaimed"

\* C9, amended: every later claim for the pair fails and transfers nothing; the
\* error is AlreadyClaimed, or that of a gate checked before it (DisputeNotResolved
\* after an appeal, NoRewardAvailable after a resolution flagged malicious).
C9_SingleClaimAmended ==
    \A p \in claimed :
        LET r == claim_voter_reward(p[1], p[2]) IN
        /\ r.res \in {"AlreadyClaimed", "DisputeNotResolved", "NoRewardAvailable"}
        /\ r.res = "AlreadyClaimed" <=>
               ( /\ disputes[p[1]].status \in
                       {"ResolvedForClient", "ResolvedForFreelancer", "FinalResolution"}
                 /\ ~disputes[p[1]].malicious )
        /\ r.bal = bal
        /\ r.rewardPaid = rewardPaid

\* A second claim refused while the registry could pay it.
C9_Witness ==
    \E p \in claimed :
        /\ claim_voter_reward(p[1], p[2]).res = "AlreadyClaimed"
        /\ voter_on_winning_side(p[1], p[2])
        /\ bal[RegistryAddr] >= disputes[p[1]].dispute_fee

----------------------------------------------------------------------------
(* Claims about the Settlement Bridge.                                     *)

Settling == { "ClientWins", "FreelancerWins", "RefundBoth" }
Terminal == { "Completed", "Cancelled" }

\* C11: no double settlement. resolve_dispute_callback on a Created, Completed or
\* Cancelled job fails with InvalidStatus and changes nothing; a callback with
\* ClientWins, FreelancerWins or RefundBoth leaves the job Completed or Cancelled,
\* and the job stays so, so every later callback for it is rejected.
C11_NoDoubleSettlement ==
    /\ [](\A j \in 1..Len(jobs), res \in Resolutions :
             jobs[j].status \in {"Created", "Completed", "Cancelled"} =>
                 LET r == resolve_dispute_callback(j, res) IN
                 /\ r.res = "InvalidStatus"
                 /\ r.jobs = jobs
                 /\ r.bal = bal
                 /\ r.paidOut = paidOut)
    /\ [][/\ (last'.op = "resolve_dispute_callback" /\ last'.out \in Settling)
                => jobs'[last'.id].status \in Terminal
          /\ \A j \in 1..Len(jobs) :
                jobs[j].status \in Terminal => jobs'[j].status \in Terminal]_vars

\* A job a callback has settled, while the escrow still holds tokens of other jobs.
C11_Witness ==
    /\ last.op = "resolve_dispute_callback"
    /\ last.out \in Settling
    /\ bal[EscrowAddr] > 0
    /\ \A res \in Resolutions :
          resolve_dispute_callback(last.id, res).res = "InvalidStatus"

Max(a, b) == IF a >= b THEN a ELSE b

\* What a committed escrow call added to the balance of an address.
gained(a) == bal'[a] - bal[a]

\* C12: settlement routing. With remaining = total_amount minus the Approved
\* amounts, a committed resolve_dispute_callback pays all of remaining to the client
\* and sets Cancelled for ClientWins, pays all of remaining to the freelancer and
\* sets Completed for FreelancerWins, and transfers nothing and leaves the job as
\* it was for Escalate; with remaining <= 0 nothing is transferred.
C12_SettlementRouting ==
    [][last'.op = "resolve_dispute_callback" =>
          LET j == last'.id
              rem == Max(remaining(j), 0)
          IN /\ jobs[j].status \in {"Funded", "InProgress"}
             /\ last'.out = "ClientWins" =>
                   /\ gained(jobs[j].client) = rem
                   /\ gained(jobs[j].freelancer) = 0
                   /\ gained(EscrowAddr) = -rem
                   /\ jobs'[j].status = "Cancelled"
             /\ last'.out = "FreelancerWins" =>
                   /\ gained(jobs[j].freelancer) = rem
                   /\ gained(jobs[j].client) = 0
                   /\ gained(EscrowAddr) = -rem
                   /\ jobs'[j].status = "Completed"
             /\ last'.out = "Escalate" => bal' = bal /\ jobs' = jobs
             /\ jobs'[j].milestones = jobs[j].milestones]_vars

\* A FreelancerWins callback that paid the freelancer and completed the job.
C12_Witness ==
    /\ last.op = "resolve_dispute_callback"
    /\ last.out = "FreelancerWins"
    /\ last.ret > 0
    /\ jobs[last.id].status = "Completed"
    /\ ~all_approved(jobs[last.id].milestones)

\* The same mapping with nothing left to pay.
C12_ZeroRemaining ==
    /\ last.op = "resolve_dispute_callback"
    /\ last.out = "ClientWins"
    /\ last.ret = 0
    /\ jobs[last.id].status = "Cancelled"

\* C13: RefundBoth split. For every remaining > 0, a committed
\* resolve_dispute_callback with RefundBoth pays remaining / 2 (integer division) to
\* the client and remaining - remaining / 2 to the freelancer, so that exactly
\* remaining leaves custody, and sets the job to Cancelled.
C13_RefundBothSplit ==
    [][(/\ last'.op = "resolve_dispute_callback"
        /\ last'.out = "RefundBoth"
        /\ remaining(last'.id) > 0) =>
          LET j == last'.id
              rem == remaining(j)
          IN /\ gained(jobs[j].client) = rem \div 2
             /\ gained(jobs[j].freelancer) = rem - (rem \div 2)
             /\ gained(EscrowAddr) = -rem
             /\ jobs'[j].status = "Cancelled"]_vars

\* C14: a non-final resolve_dispute (appeal_count < max_appeals) leaves the Job
\* Ledger untouched: the jobs (status, milestones), the proposals and the escrow's
\* token balance are the same after the call, and no callback is made, whichever
\* side won the round.
C14_NonFinalLeavesLedger ==
    [][(/\ last'.op = "resolve_dispute"
        /\ disputes[last'.id].appeal_count < disputes[last'.id].max_appeals) =>
          /\ jobs' = jobs
          /\ proposals' = proposals
          /\ bal'[EscrowAddr] = bal[EscrowAddr]
          /\ callbacks' = callbacks]_vars

\* A round resolved for the freelancer while the disputed job sits funded in escrow.
C14_Witness ==
    /\ last.op = "resolve_dispute"
    /\ last.out = "ResolvedForFreelancer"
    /\ JobExists(disputes[last.id].job_id)
    /\ jobs[disputes[last.id].job_id].status = "Funded"
    /\ bal[EscrowAddr] = jobs[disputes[last.id].job_id].total_amount

----------------------------------------------------------------------------
(* Claims about stakes, fees and rewards.                                  *)

\* The share of the votes against the initiator, over the threshold.
against_initiator(d) ==
    LET D == disputes[d]
        against == IF D.initiator = D.client THEN D.votes_for_freelancer
                   ELSE D.votes_for_client
    IN total_votes(d) > 0 /\ (against * 100) \div total_votes(d) > threshold

\* The winner of the round: the client iff votes_for_client >= votes_for_freelancer.
round_winner(d) ==
    IF disputes[d].votes_for_client >= disputes[d].votes_for_freelancer
    THEN disputes[d].client ELSE disputes[d].freelancer

\* C15: penalty-stake settlement. On every committed resolve_dispute (final or not)
\* of a dispute with initiator_penalty_stake > 0, the whole stake goes to the winner
\* of the round if the share of votes against the initiator exceeds the threshold,
\* and back to the initiator otherwise.
C15_StakeSettlement ==
    [][(/\ last'.op = "resolve_dispute"
        /\ disputes[last'.id].initiator_penalty_stake > 0) =>
          LET d == last'.id
              to == IF against_initiator(d) THEN round_winner(d)
                    ELSE disputes[d].initiator
          IN /\ gained(to) = disputes[d].initiator_penalty_stake
             /\ gained(RegistryAddr) = -disputes[d].initiator_penalty_stake]_vars

\* The threshold lowered to 50 by set_malicious_threshold: two of three votes
\* against the initiator (66%) slash the stake, which goes to the freelancer, the
\* winner of the round.
C15_SlashedAtLowerThreshold ==
    /\ last.op = "resolve_dispute"
    /\ threshold = 50
    /\ disputes[last.id].initiator = ClientAddr
    /\ disputes[last.id].appeal_count = 0
    /\ disputes[last.id].votes_for_client = 1
    /\ disputes[last.id].votes_for_freelancer = 2
    /\ disputes[last.id].initiator_penalty_stake = 5
    /\ bal[FreelancerAddr] = InitialFunds + 5
    /\ bal[ClientAddr] = InitialFunds - 5

\* C16: malicious fee refund recipient. Whenever a committed resolve_dispute
\* refunds the dispute fee as malicious (dispute_fee > 0), the recipient is the
\* winner of that round and is not the initiator of the dispute.
C16_RefundRecipient ==
    [][(/\ last'.op = "resolve_dispute"
        /\ disputes'[last'.id].malicious
        /\ disputes[last'.id].dispute_fee > 0) =>
          LET d == last'.id IN
          /\ gained(round_winner(d)) >= disputes[d].dispute_fee
          /\ round_winner(d) # disputes[d].initiator]_vars

\* C17: malicious flag cross-check. After every committed resolve_dispute the
\* malicious status stored on the dispute equals the computed predicate
\* (votes against the initiator * 100 / total votes > threshold).
C17_FlagCrossCheck ==
    [][last'.op = "resolve_dispute" =>
          disputes'[last'.id].malicious = against_initiator(last'.id)]_vars

Resolved == { "ResolvedForClient", "ResolvedForFreelancer", "FinalResolution" }

\* The side that won the round, and the votes recorded for a side in the round.
round_choice(d) ==
    IF disputes[d].votes_for_client >= disputes[d].votes_for_freelancer
    THEN "Client" ELSE "Freelancer"
recorded(d, choice) == { i \in 1..Len(votes[d]) : votes[d][i].choice = choice }
recorded_for(d, v, choice) == \E i \in recorded(d, choice) : votes[d][i].voter = v

\* The claims that can pay: the dispute resolved, not malicious, with a fee.
payable(d) ==
    /\ disputes[d].status \in Resolved
    /\ ~disputes[d].malicious
    /\ disputes[d].dispute_fee > 0

\* C18: voter reward amount. A committed claim_voter_reward is made by a voter
\* recorded on the winning side and pays exactly dispute_fee divided by the number
\* of votes of the winning side (integer division); on a payable dispute a claim by
\* a voter recorded on the losing side, or by an address that never voted on the
\* dispute, fails with NotWinningVoter and pays nothing.
C18_RewardAmount ==
    /\ [][last'.op = "claim_voter_reward" =>
             LET d == last'.id
                 v == last'.who
                 reward == disputes[d].dispute_fee
                               \div Cardinality(recorded(d, round_choice(d)))
             IN /\ payable(d)
                /\ recorded_for(d, v, round_choice(d))
                /\ last'.ret = reward
                /\ gained(v) = reward
                /\ gained(RegistryAddr) = -reward]_vars
    /\ [](\A d \in 1..Len(disputes), v \in VoterSet \cup Parties :
             ( /\ payable(d)
               /\ \/ << d, v >> \notin hasVoted
                  \/ /\ \E i \in 1..Len(votes[d]) : votes[d][i].voter = v
                     /\ ~recorded_for(d, v, round_choice(d)) )
             => LET r == claim_voter_reward(d, v) IN
                /\ r.res = "NotWinningVoter"
                /\ r.bal = bal
                /\ r.voterRewarded = voterRewarded)

\* A reward smaller than the fee share: the remainder of the division stays unpaid,
\* and a voter of the losing side is on record.
C18_Witness ==
    /\ last.op = "claim_voter_reward"
    /\ last.ret > 0
    /\ last.ret * Cardinality(recorded(last.id, round_choice(last.id)))
           < disputes[last.id].dispute_fee
    /\ recorded(last.id, "Client") # {}
    /\ recorded(last.id, "Freelancer") # {}

\* C19: voter reward gate. claim_voter_reward fails with DisputeNotResolved unless
\* the status is ResolvedForClient, ResolvedForFreelancer or FinalResolution, and
\* with NoRewardAvailable if the resolved dispute is marked malicious or has no
\* fee; no failing claim changes a balance or a claimed flag.
C19_RewardGate ==
    \A d \in 1..Len(disputes), v \in VoterSet \cup Parties :
        LET r == claim_voter_reward(d, v) IN
        /\ disputes[d].status \notin Resolved => r.res = "DisputeNotResolved"
        /\ (disputes[d].status \in Resolved
              /\ (disputes[d].malicious \/ disputes[d].dispute_fee <= 0))
           => r.res = "NoRewardAvailable"
        /\ r.res # "Ok" =>
              /\ r.bal = bal
              /\ r.voterRewarded = voterRewarded
              /\ r.rewardPaid = rewardPaid

\* A winning voter of a dispute resolved as malicious, refused while the registry
\* holds enough to pay the reward.
C19_Witness ==
    \E d \in 1..Len(disputes), v \in VoterSet :
        /\ disputes[d].status \in Resolved
        /\ disputes[d].malicious
        /\ disputes[d].dispute_fee > 0
        /\ recorded_for(d, v, round_choice(d))
        /\ bal[RegistryAddr] >= disputes[d].dispute_fee
        /\ claim_voter_reward(d, v).res = "NoRewardAvailable"

\* C20: get_claimable_reward agrees with claim_voter_reward. In every state, for
\* every dispute id (unknown ones included) and every address, the view returns
\* the amount claim_voter_reward would transfer if called in that state, and 0
\* exactly when claim_voter_reward would fail.
C20_ClaimableAgrees ==
    \A d \in 1..(Len(disputes) + 1), v \in VoterSet \cup Parties :
        LET r == claim_voter_reward(d, v)
            g == get_claimable_reward(d, v)
        IN /\ r.res = "Ok" => g = r.ret /\ g = r.bal[v] - bal[v] /\ g > 0
           /\ r.res # "Ok" => g = 0

\* The same agreement in the states where the registry can pay the reward.
ClaimableAgreesWhenFunded ==
    \A d \in 1..(Len(disputes) + 1), v \in VoterSet \cup Parties :
        LET r == claim_voter_reward(d, v)
            g == get_claimable_reward(d, v)
        IN bal[RegistryAddr] >= g =>
              /\ r.res = "Ok" => g = r.ret /\ g = r.bal[v] - bal[v] /\ g > 0
              /\ r.res # "Ok" => g = 0

----------------------------------------------------------------------------
(* Claims about the guards of the registry calls.                          *)

\* C21: cast_vote succeeds only when the dispute status is Open, Voting or Appealed
\* (else VotingClosed), the voter is neither the dispute's client nor its
\* freelancer (else InvalidParty) and the voter has not yet voted in the current
\* round (else AlreadyVoted); a failed cast_vote changes no tally and no vote
\* record, and a successful one appends one vote, increments exactly the chosen
\* side's tally by 1 and sets status Voting.
C21_CastVoteGuards ==
    \A d \in 1..Len(disputes), v \in VoterSet \cup Parties, c \in Choices :
        LET r == cast_vote(d, v, c)
            dispute == disputes[d]
            open == dispute.status \in {"Open", "Voting", "Appealed"}
            party == v \in { dispute.client, dispute.freelancer }
        IN /\ r.res = "Ok" => open /\ ~party /\ ~in_current_round(d, v)
           /\ ~open => r.res = "VotingClosed"
           /\ open /\ party => r.res = "InvalidParty"
           /\ open /\ ~party /\ in_current_round(d, v) => r.res = "AlreadyVoted"
           /\ r.res # "Ok" =>
                 /\ r.disputes = disputes
                 /\ r.votes = votes
                 /\ r.hasVoted = hasVoted
           /\ r.res = "Ok" =>
                 /\ r.votes[d] = Append(votes[d], [voter |-> v, choice |-> c])
                 /\ \A o \in 1..Len(disputes) : o # d => r.votes[o] = votes[o]
                 /\ r.disputes = [disputes EXCEPT
                        ![d].status = "Voting",
                        ![d].votes_for_client = @ + (IF c = "Client" THEN 1 ELSE 0),
                        ![d].votes_for_freelancer = @ + (IF c = "Freelancer" THEN 1 ELSE 0)]

\* A resolved round: a vote on it is refused as VotingClosed, and the vote that
\* completed the round came from an address that cannot vote in it again.
C21_Witness ==
    \E d \in 1..Len(disputes), v \in VoterSet :
        /\ disputes[d].status = "ResolvedForFreelancer"
        /\ disputes[d].appeal_count = 1
        /\ in_current_round(d, v)
        /\ cast_vote(d, v, "Client").res = "VotingClosed"
        /\ cast_vote(d, Voters[Len(Voters)], "Client").res = "VotingClosed"

NonFinal == { "ResolvedForClient", "ResolvedForFreelancer" }

\* The party the resolved round went against.
round_loser(d) ==
    IF disputes[d].status = "ResolvedForClient" THEN disputes[d].freelancer
    ELSE disputes[d].client

may_appeal(d, a) ==
    /\ disputes[d].status \in NonFinal
    /\ disputes[d].appeal_count < disputes[d].max_appeals
    /\ a = round_loser(d)

\* C22, as claimed: raise_appeal succeeds only when the dispute is in
\* ResolvedForClient or ResolvedForFreelancer, appeal_count < max_appeals and the
\* appellant is the party that lost the round; otherwise it fails with
\* CannotAppealBeforeResolution, MaxAppealsReached or NotLosingParty and leaves the
\* dispute unchanged; appeal_count never exceeds max_appeals = 2.
C22_AppealGuards ==
    \A d \in 1..Len(disputes), a \in Callers :
        LET r == raise_appeal(d, a) IN
        /\ r.res = "Ok" => may_appeal(d, a)
        /\ ~may_appeal(d, a) =>
              /\ r.res \in {"CannotAppealBeforeResolution", "MaxAppealsReached",
                            "NotLosingParty"}
              /\ r.disputes = disputes
              /\ r.votes = votes
        /\ disputes[d].max_appeals = 2
        /\ disputes[d].appeal_count <= disputes[d].max_appeals

\* C22, amended: as above, except that an appeal of a non-final resolved round
\* whose window has passed fails with AppealWindowExpired whoever raises it; the
\* window is checked before the appellant. MaxAppealsReached is returned at
\* appeal_count >= max_appeals, CannotAppealBeforeResolution below it in Open,
\* Voting or Appealed, NotLosingParty to the winner and to third parties inside
\* the window.
C22_AppealGuardsAmended ==
    \A d \in 1..Len(disputes), a \in Callers :
        LET r == raise_appeal(d, a)
            dispute == disputes[d]
            expired == sequence > dispute.appeal_deadline
        IN /\ r.res = "Ok" => may_appeal(d, a) /\ ~expired
           /\ r.res # "Ok" => r.disputes = disputes /\ r.votes = votes
           /\ dispute.appeal_count >= dispute.max_appeals => r.res = "MaxAppealsReached"
           /\ dispute.appeal_count < dispute.max_appeals =>
                 /\ dispute.status \notin NonFinal =>
                        r.res = "CannotAppealBeforeResolution"
                 /\ dispute.status \in NonFinal /\ expired =>
                        r.res = "AppealWindowExpired"
                 /\ dispute.status \in NonFinal /\ ~expired /\ a # round_loser(d) =>
                        r.res = "NotLosingParty"
           /\ dispute.max_appeals = 2
           /\ dispute.appeal_count <= dispute.max_appeals

\* The second round resolved inside its window: the winner and a third party are
\* refused, the loser is not.
C22_Witness ==
    \E d \in 1..Len(disputes) :
        /\ disputes[d].status = "ResolvedForFreelancer"
        /\ disputes[d].appeal_count = 1
        /\ sequence > 0
        /\ sequence <= disputes[d].appeal_deadline
        /\ raise_appeal(d, disputes[d].freelancer).res = "NotLosingParty"
        /\ raise_appeal(d, OutsiderAddr).res = "NotLosingParty"
        /\ raise_appeal(d, disputes[d].client).res = "Ok"

\* A resolved round that can still be appealed and whose window has passed.
window_expired(d) ==
    /\ disputes[d].status \in NonFinal
    /\ disputes[d].appeal_count < disputes[d].max_appeals
    /\ sequence > disputes[d].appeal_deadline

\* C23: fixed appeal window. The resolution of a round stamps appeal_deadline =
\* ledger sequence at resolution + 100; raise_appeal for that round fails with
\* AppealWindowExpired whenever the current sequence is greater than that
\* deadline; and once the window of a round has expired no later raise_appeal for
\* that round can succeed.
C23_FixedAppealWindow ==
    /\ [][last'.op = "resolve_dispute" =>
             disputes'[last'.id].appeal_deadline = sequence + 100]_vars
    /\ [](\A d \in 1..Len(disputes), a \in Callers :
             window_expired(d) => raise_appeal(d, a).res = "AppealWindowExpired")
    /\ [][\A d \in 1..Len(disputes), a \in Callers :
             window_expired(d) => (raise_appeal(d, a).res # "Ok")']_vars

----------------------------------------------------------------------------
(* Claims about the outcome of a round.                                    *)

\* C24: winner rule. A non-final resolve_dispute sets ResolvedForClient exactly
\* when votes_for_client >= votes_for_freelancer (a tie goes to the client) and
\* ResolvedForFreelancer exactly when votes_for_freelancer > votes_for_client; the
\* same rule determines the outcome passed to the escrow callback at final
\* resolution.
C24_WinnerRule ==
    [][last'.op = "resolve_dispute" =>
          LET d == last'.id
              vc == disputes[d].votes_for_client
              vf == disputes[d].votes_for_freelancer
          IN IF disputes[d].appeal_count < disputes[d].max_appeals
             THEN /\ (disputes'[d].status = "ResolvedForClient") <=> (vc >= vf)
                  /\ (disputes'[d].status = "ResolvedForFreelancer") <=> (vf > vc)
                  /\ last'.out = disputes'[d].status
                  /\ last'.idx = << >>
             ELSE /\ disputes'[d].status = "FinalResolution"
                  /\ last'.idx = << disputes[d].job_id, vc >= vf >>]_vars

\* A round of six votes that ended three to three and went to the client.
C24_Witness ==
    /\ last.op = "resolve_dispute"
    /\ last.out = "ResolvedForClient"
    /\ disputes[last.id].appeal_count = 1
    /\ disputes[last.id].votes_for_client = 3
    /\ disputes[last.id].votes_for_freelancer = 3

\* A final round that ended six to six: the callback is told the client won.
C24_FinalTie ==
    /\ last.op = "resolve_dispute"
    /\ last.out = "FinalResolution"
    /\ disputes[last.id].votes_for_client = disputes[last.id].votes_for_freelancer
    /\ last.idx = << 1, TRUE >>

----------------------------------------------------------------------------
(* Claims about the life of a job.                                         *)

\* C25: the Settlement Bridge is the only dispute path into a job.
\* resolve_dispute_callback changes a job's status or moves its custody only as
\* part of a final resolve_dispute of a dispute that references that job_id: the
\* callback takes effect for no job that has no dispute reaching FinalResolution.
C25_BridgeOnly ==
    [][last'.op = "resolve_dispute_callback" =>
          LET j == last'.id IN
          (jobs'[j].status # jobs[j].status \/ paidOut'[j] # paidOut[j]) =>
              \E d \in 1..Len(disputes') :
                  /\ disputes'[d].job_id = j
                  /\ disputes'[d].status = "FinalResolution"]_vars

\* C26: terminal job states are absorbing. Once a job's status is Completed or
\* Cancelled, no operation changes its status again and no further funds are
\* transferred out of custody for that job.
C26_TerminalAbsorbing ==
    [][\A j \in 1..Len(jobs) :
          jobs[j].status \in Terminal =>
              /\ jobs'[j].status = jobs[j].status
              /\ paidOut'[j] = paidOut[j]]_vars

\* The place of a milestone status in Pending/InProgress -> Submitted -> Approved.
rank(status) ==
    CASE status = "Submitted" -> 1
      [] status = "Approved" -> 2
      [] OTHER -> 0

\* C27: milestone status is monotone. Across every operation on a job
\* (accept_revision and extend_deadline included), each milestone's status only
\* moves forward along Pending/InProgress -> Submitted -> Approved: an Approved
\* milestone never becomes non-Approved and a Submitted milestone never returns to
\* Pending.
C27_MilestoneMonotone ==
    [][\A j \in 1..Len(jobs) :
          \A i \in 1..Len(jobs[j].milestones) :
              i \in 1..Len(jobs'[j].milestones) =>
                  rank(jobs'[j].milestones[i].status) >= rank(jobs[j].milestones[i].status)]_vars

----------------------------------------------------------------------------
(* Claims about the amounts of a job.                                      *)

RECURSIVE Sum(_)
Sum(ms) == IF ms = << >> THEN 0 ELSE Head(ms).amount + Sum(Tail(ms))

\* C28: every job satisfies total_amount == sum of the amounts of its current
\* milestones in every reachable state: after create_job, after every milestone
\* status change and after every accepted revision.
C28_TotalIsSum ==
    \A j \in 1..Len(jobs) : jobs[j].total_amount = Sum(jobs[j].milestones)

\* A job whose accepted revision changed the total, one of the new milestones
\* submitted since.
C28_Witness ==
    \E j \in 1..Len(jobs) :
        /\ revisions[j] > 0
        /\ proposals[j].status = "Accepted"
        /\ jobs[j].total_amount = 30
        /\ Len(jobs[j].milestones) = 2
        /\ jobs[j].milestones[2].status = "Submitted"

\* C29: every milestone of every stored job has amount > 0: create_job and
\* propose_revision/accept_revision never install a milestone whose amount is zero
\* or negative.
C29_PositiveAmounts ==
    \A j \in 1..Len(jobs) :
        \A i \in 1..Len(jobs[j].milestones) : jobs[j].milestones[i].amount > 0

\* C30, as claimed: fund_job succeeds only for the job's client on a job in
\* status Created, moving exactly total_amount from the client into custody and
\* setting Funded; any later fund_job on the same job fails with AlreadyFunded and
\* moves no funds, so a job is funded at most once.
C30_FundOnce ==
    /\ [](\A j \in 1..Len(jobs), c \in Callers :
             LET r == fund_job(j, c)
                 job == jobs[j]
             IN /\ r.res = "Ok" =>
                      /\ c = job.client
                      /\ job.status = "Created"
                      /\ r.jobs = [jobs EXCEPT ![j].status = "Funded"]
                      /\ r.bal = [bal EXCEPT ![job.client] = @ - job.total_amount,
                                             ![EscrowAddr] = @ + job.total_amount]
                /\ job.status # "Created" =>
                      /\ r.res = "AlreadyFunded"
                      /\ r.bal = bal
                      /\ r.jobs = jobs
                      /\ r.paidIn = paidIn)
    /\ [][/\ last'.op = "fund_job" =>
                /\ jobs[last'.id].status = "Created"
                /\ jobs'[last'.id].status = "Funded"
          /\ \A j \in 1..Len(jobs) :
                jobs[j].status # "Created" => jobs'[j].status # "Created"]_vars

\* C30, amended: as above, except that the error of a later fund_job is
\* AlreadyFunded for the job's client and Unauthorized for every other caller,
\* whose identity is checked before the status.
C30_FundOnceAmended ==
    /\ [](\A j \in 1..Len(jobs), c \in Callers :
             LET r == fund_job(j, c)
                 job == jobs[j]
             IN /\ r.res = "Ok" =>
                      /\ c = job.client
                      /\ job.status = "Created"
                      /\ r.jobs = [jobs EXCEPT ![j].status = "Funded"]
                      /\ r.bal = [bal EXCEPT ![job.client] = @ - job.total_amount,
                                             ![EscrowAddr] = @ + job.total_amount]
                /\ job.status # "Created" =>
                      /\ r.res = IF c = job.client THEN "AlreadyFunded" ELSE "Unauthorized"
                      /\ r.bal = bal
                      /\ r.jobs = jobs
                      /\ r.paidIn = paidIn)
    /\ [][/\ last'.op = "fund_job" =>
                /\ jobs[last'.id].status = "Created"
                /\ jobs'[last'.id].status = "Funded"
          /\ \A j \in 1..Len(jobs) :
                jobs[j].status # "Created" => jobs'[j].status # "Created"]_vars

\* A funded job in progress whose client could pay the total again and is refused.
C30_Witness ==
    \E j \in 1..Len(jobs) :
        /\ jobs[j].status = "InProgress"
        /\ paidIn[j] = jobs[j].total_amount
        /\ bal[jobs[j].client] >= jobs[j].total_amount
        /\ fund_job(j, jobs[j].client).res = "AlreadyFunded"

----------------------------------------------------------------------------
(* Claims about refunds.                                                   *)

\* C31: claim_refund succeeds only when the caller is the job's client, the job is
\* Funded or InProgress, now >= job_deadline + grace period, and no milestone is
\* Submitted; otherwise it fails with Unauthorized, InvalidStatus,
\* GracePeriodNotMet, HasPendingMilestone or NoRefundDue respectively (the first
\* condition that fails decides, NoRefundDue when all four hold and nothing is
\* left to refund) and leaves job status and balances unchanged.
C31_ClaimRefundGuards ==
    \A j \in 1..Len(jobs), c \in Callers :
        LET r == claim_refund(j, c)
            job == jobs[j]
            is_client == c = job.client
            active == job.status \in {"Funded", "InProgress"}
            due == now >= job.job_deadline + job.auto_refund_after
            submitted == \E i \in 1..Len(job.milestones) :
                             job.milestones[i].status = "Submitted"
        IN /\ r.res = "Ok" => is_client /\ active /\ due /\ ~submitted
           /\ ~is_client => r.res = "Unauthorized"
           /\ is_client /\ ~active => r.res = "InvalidStatus"
           /\ is_client /\ active /\ ~due => r.res = "GracePeriodNotMet"
           /\ is_client /\ active /\ due /\ submitted => r.res = "HasPendingMilestone"
           /\ is_client /\ active /\ due /\ ~submitted /\ remaining(j) <= 0 =>
                  r.res = "NoRefundDue"
           /\ r.res # "Ok" =>
                  /\ r.jobs = jobs
                  /\ r.bal = bal
                  /\ r.paidOut = paidOut

\* Past the grace period, the escrow holding the funds, a milestone submitted and
\* not reviewed: the client's claim is refused.
C31_Witness ==
    \E j \in 1..Len(jobs) :
        /\ jobs[j].status = "InProgress"
        /\ now >= jobs[j].job_deadline + jobs[j].auto_refund_after
        /\ bal[EscrowAddr] >= remaining(j)
        /\ remaining(j) > 0
        /\ claim_refund(j, jobs[j].client).res = "HasPendingMilestone"

\* A funded job with every milestone Approved: nothing is due.
C31_NoRefundDue ==
    \E j \in 1..Len(jobs) : claim_refund(j, jobs[j].client).res = "NoRefundDue"

Refunding == { "cancel_job", "claim_refund" }

\* C32: refund amount. A successful cancel_job or claim_refund on a funded job
\* transfers to the client exactly total_amount minus the sum of the Approved
\* milestone amounts, leaves the freelancer's earlier milestone payouts untouched,
\* and sets the job to Cancelled with nothing left in custody for it.
C32_RefundAmount ==
    [][(last'.op \in Refunding /\ jobs[last'.id].status \in {"Funded", "InProgress"}) =>
          LET j == last'.id IN
          /\ gained(jobs[j].client) = remaining(j)
          /\ gained(jobs[j].freelancer) = 0
          /\ gained(TreasuryAddr) = 0
          /\ jobs'[j].status = "Cancelled"
          /\ paidIn'[j] - paidOut'[j] = 0]_vars

\* The part of C32 about the transfer and the status.
RefundTransfer ==
    [][(last'.op \in Refunding /\ jobs[last'.id].status \in {"Funded", "InProgress"}) =>
          LET j == last'.id IN
          /\ gained(jobs[j].client) = remaining(j)
          /\ gained(jobs[j].freelancer) = 0
          /\ gained(TreasuryAddr) = 0
          /\ gained(EscrowAddr) = -remaining(j)
          /\ jobs'[j].status = "Cancelled"]_vars

----------------------------------------------------------------------------
(* Claims about revisions.                                                 *)

\* C33: at most one Pending revision proposal exists per job. propose_revision
\* by a party of the job fails with RevisionProposalAlreadyExists while a Pending
\* proposal is stored for the job, no call replaces a Pending proposal, and
\* propose_revision succeeds again, for either party, once that proposal has been
\* accepted or rejected.
C33_OnePendingProposal ==
    /\ [](\A j \in 1..Len(jobs), c \in Callers, ms \in ProposalInputs :
             LET r == propose_revision(c, j, ms)
                 party == c \in { jobs[j].client, jobs[j].freelancer }
                 pending == proposals[j].exists /\ proposals[j].status = "Pending"
             IN /\ pending => r.res # "Ok" /\ r.proposals = proposals
                /\ pending /\ party => r.res = "RevisionProposalAlreadyExists"
                /\ ~pending /\ party =>
                      /\ r.res = "Ok"
                      /\ r.proposals[j].status = "Pending"
                      /\ r.proposals[j].proposer = c
                      /\ r.proposals[j].new_milestones = ms)
    /\ [][last'.op = "propose_revision" =>
             /\ ~(proposals[last'.id].exists /\ proposals[last'.id].status = "Pending")
             /\ proposals'[last'.id].status = "Pending"]_vars

\* A second proposal, made by the freelancer after the client's first one was
\* rejected, waiting; a third one is refused.
C33_Witness ==
    \E j \in 1..Len(jobs) :
        /\ revisions[j] = 2
        /\ last.op = "propose_revision"
        /\ last.who = jobs[j].freelancer
        /\ proposals[j].status = "Pending"
        /\ \A ms \in ProposalInputs :
              propose_revision(jobs[j].client, j, ms).res = "RevisionProposalAlreadyExists"

Acted == { "Accepted", "Rejected" }
Deciding == { "accept_revision", "reject_revision" }

\* C34: only the non-proposing party of the job can accept or reject a Pending
\* revision. accept_revision and reject_revision fail with
\* NotAuthorizedForProposalAction when the caller is the proposer or is neither
\* client nor freelancer, and fail with ProposalNotPending once the proposal has
\* been accepted or rejected, so each proposal is acted upon at most once.
C34_NonProposerDecides ==
    /\ [](\A j \in 1..Len(jobs), c \in Callers :
             LET a == accept_revision(c, j)
                 r == reject_revision(c, j)
                 party == c \in { jobs[j].client, jobs[j].freelancer }
                 proposer == c = proposals[j].proposer
             IN /\ proposals[j].status = "Pending" /\ (proposer \/ ~party) =>
                      /\ a.res = "NotAuthorizedForProposalAction"
                      /\ r.res = "NotAuthorizedForProposalAction"
                /\ proposals[j].status \in Acted =>
                      /\ a.res = "ProposalNotPending"
                      /\ r.res = "ProposalNotPending"
                /\ a.res # "Ok" =>
                      a.jobs = jobs /\ a.proposals = proposals /\ a.bal = bal
                /\ r.res # "Ok" =>
                      r.jobs = jobs /\ r.proposals = proposals /\ r.bal = bal
                /\ r.res = "Ok" => proposals[j].status = "Pending" /\ party /\ ~proposer)
    /\ [][last'.op \in Deciding =>
             LET j == last'.id IN
             /\ proposals[j].status = "Pending"
             /\ proposals'[j].status =
                    (IF last'.op = "accept_revision" THEN "Accepted" ELSE "Rejected")
             /\ last'.who \in { jobs[j].client, jobs[j].freelancer }
             /\ last'.who # proposals[j].proposer]_vars

\* The freelancer's proposal rejected by the client: neither party can act on it
\* again, and while it was waiting the freelancer could not decide it.
C34_Witness ==
    \E j \in 1..Len(jobs) :
        /\ last.op = "reject_revision"
        /\ last.who = jobs[j].client
        /\ proposals[j].proposer = jobs[j].freelancer
        /\ proposals[j].status = "Rejected"
        /\ accept_revision(jobs[j].client, j).res = "ProposalNotPending"
        /\ reject_revision(jobs[j].freelancer, j).res = "ProposalNotPending"

\* C35: revision re-balancing. A successful accept_revision with
\* delta = new_total - old_total changes the escrow custody by exactly delta
\* (pulled from the client when delta > 0, refunded to the client when delta < 0,
\* no transfer when delta = 0), and sets job.total_amount to new_total and the
\* job's milestones to the proposed list in the same operation.
C35_RevisionRebalance ==
    [][last'.op = "accept_revision" =>
          LET j == last'.id
              delta == proposals[j].new_total - jobs[j].total_amount
          IN /\ gained(EscrowAddr) = delta
             /\ gained(jobs[j].client) = -delta
             /\ \A a \in Addresses \ { EscrowAddr, jobs[j].client } : gained(a) = 0
             /\ (paidIn'[j] - paidOut'[j]) - (paidIn[j] - paidOut[j]) = delta
             /\ jobs'[j].total_amount = proposals[j].new_total
             /\ jobs'[j].milestones = proposals[j].new_milestones
             /\ jobs'[j].total_amount = Sum(proposals[j].new_milestones)]_vars

\* A funded job of 25 revised down to 5: 20 went back to the client.
C35_Witness ==
    \E j \in 1..Len(jobs) :
        /\ last.op = "accept_revision"
        /\ last.id = j
        /\ jobs[j].status = "Funded"
        /\ jobs[j].total_amount = 5
        /\ paidIn[j] = 25
        /\ paidOut[j] = 20
        /\ bal[EscrowAddr] = 5

\* The same job revised up to 50: the client paid 25 more.
C35_TopUp ==
    \E j \in 1..Len(jobs) :
        /\ last.op = "accept_revision"
        /\ jobs[j].total_amount = 50
        /\ paidIn[j] = 50

\* C36: reject_revision changes only the proposal's status (Pending -> Rejected):
\* the job's milestones, total_amount, status and every token balance are the same
\* after the call as before it.
C36_RejectFrame ==
    [][last'.op = "reject_revision" =>
          LET j == last'.id IN
          /\ proposals[j].status = "Pending"
          /\ proposals' = [proposals EXCEPT ![j].status = "Rejected"]
          /\ jobs' = jobs
          /\ bal' = bal
          /\ paidIn' = paidIn
          /\ paidOut' = paidOut]_vars

\* A proposal to raise a funded job from 25 to 50, rejected: the job and the
\* custody are where they were.
C36_Witness ==
    \E j \in 1..Len(jobs) :
        /\ last.op = "reject_revision"
        /\ last.id = j
        /\ proposals[j].status = "Rejected"
        /\ proposals[j].new_total = 50
        /\ jobs[j].status = "Funded"
        /\ jobs[j].total_amount = 25
        /\ paidIn[j] = 25
        /\ paidOut[j] = 0

----------------------------------------------------------------------------
(* Claims about the release of milestones.                                 *)

Approving == { "approve_milestone", "approve_milestones_batch" }

\* The amount a committed approval released: the milestone's amount, or the total
\* the batch call returned.
released_by(call) ==
    IF call.op = "approve_milestone"
    THEN jobs[call.id].milestones[call.idx[1] + 1].amount
    ELSE call.ret

\* C37: fee split. approve_milestone and approve_milestones_batch send
\* fee = released * fee_bps / 10000 (integer division) to the treasury and
\* released - fee to the freelancer, so treasury fee plus freelancer payout equals
\* the released amount exactly; fee_bps never exceeds 1000 in any reachable
\* configuration because initialize and set_fee_bps reject larger values.
C37_FeeSplit ==
    /\ [](/\ fee_bps <= 1000
          /\ \A f \in FeeInputs :
                f > 1000 => /\ initialize(f).res = "InvalidStatus"
                            /\ set_fee_bps(f).res = "InvalidStatus"
                            /\ set_fee_bps(f).fee_bps = fee_bps)
    /\ [][last'.op \in Approving =>
             LET released == released_by(last')
                 fee == (released * fee_bps) \div 10000
             IN /\ gained(TreasuryAddr) = fee
                /\ gained(jobs[last'.id].freelancer) = released - fee
                /\ gained(TreasuryAddr) + gained(jobs[last'.id].freelancer) = released
                /\ gained(EscrowAddr) = -released
                /\ gained(jobs[last'.id].client) = 0]_vars

\* A milestone of 25 approved at 400 bps: 1 to the treasury (25 * 400 / 10000
\* rounded down), 24 to the freelancer.
C37_Witness ==
    /\ last.op = "approve_milestone"
    /\ fee_bps = 400
    /\ bal[TreasuryAddr] = 1
    /\ bal[FreelancerAddr] = InitialFunds + 24

\* C38: one resolution per round. Within a single voting round resolve_dispute
\* takes effect at most once: on a dispute already in ResolvedForClient or
\* ResolvedForFreelancer with no intervening raise_appeal, a further
\* resolve_dispute is rejected and pays out neither the penalty stake nor the
\* dispute fee a second time.
C38_OneResolutionPerRound ==
    \A d \in 1..Len(disputes), e \in EscrowInputs, m \in BOOLEAN :
        disputes[d].status \in NonFinal =>
            LET r == resolve_dispute(d, e, m) IN
            /\ r.res # "Ok"
            /\ r.disputes = disputes
            /\ r.bal = bal

\* The milestones (1-based positions) of job j that the step moves from Submitted
\* to Approved, and the sum of their amounts.
moved(j) ==
    { i \in 1..Len(jobs[j].milestones) :
        /\ jobs[j].milestones[i].status = "Submitted"
        /\ jobs'[j].milestones[i].status = "Approved" }

RECURSIVE amount_of(_, _)
amount_of(milestones, S) ==
    IF S = {} THEN 0
    ELSE LET i == CHOOSE x \in S : TRUE
         IN milestones[i].amount + amount_of(milestones, S \ {i})

\* C39: approve_milestones_batch releases each milestone at most once. For any
\* index list, including one that repeats an index, the amount released (returned,
\* and transferred to the freelancer plus the treasury) equals the sum of the
\* amounts of the distinct milestones the call moves from Submitted to Approved.
C39_BatchReleasesOnce ==
    [][last'.op = "approve_milestones_batch" =>
          LET j == last'.id
              due == amount_of(jobs[j].milestones, moved(j))
          IN /\ last'.ret = due
             /\ gained(jobs[j].freelancer) + gained(TreasuryAddr) = due
             /\ gained(EscrowAddr) = -due]_vars

\* A job for which the escrow holds no funds: not yet funded, or settled.
Unfunded == { "Created", "Completed", "Cancelled" }

\* C40: accept_revision moves funds only for a funded, active job. It never
\* transfers tokens out of custody for a job whose status is Created, Completed
\* or Cancelled, whatever the proposed new_total.
C40_AcceptMovesFundedOnly ==
    [][(last'.op = "accept_revision" /\ jobs[last'.id].status \in Unfunded) =>
          /\ gained(EscrowAddr) >= 0
          /\ paidOut'[last'.id] = paidOut[last'.id]]_vars

====
